---- MODULE Spec2Model ----
(***************************************************************************)
(* OmniHelper.js, Utils module: deepClone, deepMerge, get, set, has and    *)
(* isEqual over JavaScript values.                                         *)
(*                                                                         *)
(* A JavaScript value is a primitive or a reference into a heap of         *)
(* objects.  A heap object is a plain object ("map") or an Array ("arr");  *)
(* its own properties are an ordered list of entries (insertion order) and *)
(* an Array has its indexed items besides.  Property names are sequences   *)
(* of one-character strings, so that a dot-path can be split as            *)
(* String.prototype.split does.                                            *)
(***************************************************************************)
EXTENDS Integers, Sequences, FiniteSets, TLC

VARIABLES
    heap,    \* the objects allocated so far: heap[id] is the object with identity id
    a,       \* first argument of the call (obj / target / a)
    b,       \* second argument of the call (source / b)
    path,    \* the dot-path argument, a sequence of characters
    x,       \* the value argument of set
    dflt,    \* the defaultValue argument of get
    op,      \* what the caller has done so far
    ret,     \* what the last call returned
    threw,   \* whether the last call ended by throwing
    heap0,   \* the heap as it was when the last call started
    heap1,   \* the heap as it was when the last call returned
    args,    \* the other arguments of a call on the Data module
    calls,   \* how many times the last call invoked its callback
    now,     \* Date.now(), in milliseconds since the page was loaded
    timers,  \* every setTimeout so far: timers[id] is the timer with identity id
    tasks,   \* the invocations of the timed operations: their closures and promises
    log,     \* the calls made to the functions the caller supplied, in order
    elements,\* the DOM elements created so far
    Notify   \* the fields of the Notify module: container, activeCount

\* The variables of the synchronous operations, and those of the timed ones.
dataVars == <<heap, a, b, path, x, dflt, op, ret, threw, heap0, heap1, args, calls>>

timedVars == <<now, timers, tasks, log, elements, Notify>>

vars == <<dataVars, timedVars>>

----------------------------------------------------------------------------
(* Bounds of the model. *)

\* Nodes (primitives and containers) in the two arguments of a call together.
MaxNodes == 4

\* Nodes in the argument of deepClone.
MaxCloneNodes == 4

\* Nodes in the obj argument of a dot-path call.
MaxObjNodes == 3

\* Segments in a dot-path.
MaxSegs == 3

----------------------------------------------------------------------------
(* JavaScript values. *)

Null  == [t |-> "null", s |-> ""]
Undef == [t |-> "undef", s |-> ""]
True  == [t |-> "bool", s |-> "true"]
Zero  == [t |-> "num", s |-> "0"]
NaN   == [t |-> "num", s |-> "NaN"]
Str(s) == [t |-> "str", s |-> s]
Ref(id) == [t |-> "ref", id |-> id]

\* A built-in function, by its name.
Fn(name) == [t |-> "fn", s |-> name]

\* The characters of a text, in order: a property key is held this way.
CharsOf(s) == [i \in 1..Len(s) |-> SubSeq(s, i, i)] \o <<>>

\* The methods a plain object or an Array inherits from Object.prototype.
ObjectPrototype == {"constructor", "hasOwnProperty", "toString", "valueOf"}

ObjectPrototypeKeys == {CharsOf(name) : name \in ObjectPrototype}

\* The primitives the arguments are built from: null, undefined, a boolean,
\* two numbers (0 and NaN) and a one-character text.
Prims == {Null, Undef, True, Zero, NaN, Str("s")}

\* Own keys of the plain objects the arguments are built from.
MapKeys == {<<"a">>, <<"b">>}

\* Segments the dot-paths are built from: a name and an array index.
SegKeys == {<<"a">>, <<"0">>}

IndexKeys == <<<<"0">>, <<"1">>, <<"2">>, <<"3">>, <<"4">>, <<"5">>>>

IsIndexKey(k) == \E i \in 1..Len(IndexKeys) : IndexKeys[i] = k

\* The array index a key denotes, counted from 1.
IndexOf(k) == CHOOSE i \in 1..Len(IndexKeys) : IndexKeys[i] = k

EmptyMap == [kind |-> "map", items |-> <<>>, ents |-> <<>>]
EmptyArr == [kind |-> "arr", items |-> <<>>, ents |-> <<>>]

IsRef(v) == v.t = "ref"

\* ToBoolean: null, undefined, 0, NaN, "" and false are falsy.
Falsy(v) ==
    \/ v.t \in {"null", "undef"}
    \/ v.t = "num" /\ v.s \in {"0", "NaN"}
    \/ v.t = "str" /\ v.s = ""
    \/ v.t = "bool" /\ v.s = "false"

\* typeof v
TypeOf(v) ==
    CASE v.t \in {"null", "ref"} -> "object"
      [] v.t = "undef" -> "undefined"
      [] v.t = "bool" -> "boolean"
      [] v.t = "num" -> "number"
      [] v.t = "str" -> "string"
      [] v.t = "fn" -> "function"

\* a === b
StrictEq(v, w) ==
    /\ v = w
    /\ ~(v.t = "num" /\ v.s = "NaN")

IsArray(h, v) == IsRef(v) /\ h[v.id].kind = "arr"

isObject(h, v) == v # Null /\ TypeOf(v) = "object" /\ ~IsArray(h, v)

----------------------------------------------------------------------------
(* Property access on heap objects and primitives. *)

EntKeys(ents) == {ents[i].k : i \in 1..Len(ents)}

EntIndex(ents, k) == CHOOSE i \in 1..Len(ents) : ents[i].k = k

\* Object.keys(v) of an object, in enumeration order: the indices first.
ObjectKeys(h, v) ==
    LET c == h[v.id]
    IN [i \in 1..Len(c.items) |-> IndexKeys[i]] \o [i \in 1..Len(c.ents) |-> c.ents[i].k]

\* v.hasOwnProperty(k) for a v that is neither null nor undefined.
\* The slot of an Array whose element was deleted: the length stays, the
\* index is no longer an own property and reads as undefined.
Hole == [t |-> "hole", s |-> ""]

HasOwn(h, v, k) ==
    CASE IsRef(v) ->
            \/ k \in EntKeys(h[v.id].ents)
            \/ /\ IsIndexKey(k) /\ IndexOf(k) <= Len(h[v.id].items)
               /\ h[v.id].items[IndexOf(k)] # Hole
      [] v.t = "str" -> IsIndexKey(k) /\ v.s # "" /\ IndexOf(k) = 1
      [] OTHER -> FALSE

\* v[k] for a v that is neither null nor undefined.
GetProp(h, v, k) ==
    CASE IsRef(v) ->
            LET c == h[v.id]
            IN IF IsIndexKey(k) /\ IndexOf(k) <= Len(c.items)
               THEN IF c.items[IndexOf(k)] = Hole THEN Undef ELSE c.items[IndexOf(k)]
               ELSE IF k \in EntKeys(c.ents) THEN c.ents[EntIndex(c.ents, k)].v
               ELSE IF k \in ObjectPrototypeKeys
               THEN Fn(CHOOSE name \in ObjectPrototype : CharsOf(name) = k)
               ELSE Undef
      [] v.t = "str" -> IF HasOwn(h, v, k) THEN v ELSE Undef
      [] OTHER -> Undef

\* The heap after o[k] = v on the heap object id.  An index key on an Array
\* that names an existing item or the next one writes the item; an
\* index key on a plain object is enumerated before the names.
PutProp(h, id, k, v) ==
    LET c == h[id]
    IN IF c.kind = "arr" /\ IsIndexKey(k) /\ IndexOf(k) <= Len(c.items) + 1
       THEN IF IndexOf(k) <= Len(c.items)
            THEN [h EXCEPT ![id].items[IndexOf(k)] = v]
            ELSE [h EXCEPT ![id].items = Append(c.items, v)]
       ELSE IF k \in EntKeys(c.ents)
       THEN [h EXCEPT ![id].ents[EntIndex(c.ents, k)].v = v]
       ELSE IF IsIndexKey(k)
       THEN [h EXCEPT ![id].ents = <<[k |-> k, v |-> v]>> \o c.ents]
       ELSE [h EXCEPT ![id].ents = Append(c.ents, [k |-> k, v |-> v])]

\* The heap with a new object, and the reference to it.
Alloc(h, cell) == [h |-> Append(h, cell), v |-> Ref(Len(h) + 1)]

----------------------------------------------------------------------------
(* Values as trees: what the caller writes as a literal, and what a value  *)
(* looks like from outside (its structure, without identities).            *)

Arr(items) == [t |-> "arr", items |-> items, ents |-> <<>>]
Map(ents) == [t |-> "map", items |-> <<>>, ents |-> ents]

RECURSIVE TreesExact(_), ItemsExact(_), EntsExact(_, _)

\* The literals with exactly n nodes.
TreesExact(n) ==
    IF n <= 0 THEN {}
    ELSE (IF n = 1 THEN Prims ELSE {})
         \cup {Arr(items) : items \in ItemsExact(n - 1)}
         \cup {Map(ents) : ents \in EntsExact(n - 1, MapKeys)}

\* The item lists with exactly n nodes in all.
ItemsExact(n) ==
    IF n = 0 THEN {<<>>}
    ELSE UNION {{<<t>> \o rest : t \in TreesExact(i), rest \in ItemsExact(n - i)} : i \in 1..n}

\* The entry lists with exactly n nodes in all and distinct keys among free.
EntsExact(n, free) ==
    IF n = 0 THEN {<<>>}
    ELSE UNION {{<<[k |-> k, v |-> t]>> \o rest :
                    t \in TreesExact(i), rest \in EntsExact(n - i, free \ {k})} :
                <<k, i>> \in free \X (1..n)}

TreesUpTo(n) == UNION {TreesExact(i) : i \in 1..n}

RECURSIVE Build(_, _), BuildItems(_, _, _, _), BuildEnts(_, _, _, _)

\* The heap and the value after the caller has evaluated the literal tree:
\* the container is allocated first, its members are then filled in order.
Build(h, tree) ==
    CASE tree.t = "arr" ->
            LET al == Alloc(h, EmptyArr)
            IN [h |-> BuildItems(al.h, al.v.id, tree.items, 1), v |-> al.v]
      [] tree.t = "map" ->
            LET al == Alloc(h, EmptyMap)
            IN [h |-> BuildEnts(al.h, al.v.id, tree.ents, 1), v |-> al.v]
      [] OTHER -> [h |-> h, v |-> tree]

BuildItems(h, id, items, i) ==
    IF i > Len(items) THEN h
    ELSE LET m == Build(h, items[i])
         IN BuildItems([m.h EXCEPT ![id].items = Append(@, m.v)], id, items, i + 1)

BuildEnts(h, id, ents, i) ==
    IF i > Len(ents) THEN h
    ELSE LET m == Build(h, ents[i].v)
         IN BuildEnts(PutProp(m.h, id, ents[i].k, m.v), id, ents, i + 1)

RECURSIVE Abs(_, _)

\* The structure of the value v in heap h (acyclic values only).
Abs(h, v) ==
    IF ~IsRef(v) THEN v
    ELSE LET c == h[v.id]
             items == [i \in 1..Len(c.items) |-> Abs(h, c.items[i])]
             ents == [i \in 1..Len(c.ents) |-> [k |-> c.ents[i].k, v |-> Abs(h, c.ents[i].v)]]
         IN [t |-> c.kind, items |-> items, ents |-> ents]

RECURSIVE Reach(_, _)

\* The identities of the objects reachable from v.
Reach(h, v) ==
    IF ~IsRef(v) THEN {}
    ELSE LET c == h[v.id]
         IN {v.id} \cup UNION {Reach(h, c.items[i]) : i \in 1..Len(c.items)}
                   \cup UNION {Reach(h, c.ents[i].v) : i \in 1..Len(c.ents)}

----------------------------------------------------------------------------
(* Utils.deepClone *)

RECURSIVE deepClone(_, _), CloneItems(_, _, _, _), CloneEnts(_, _, _, _)

\* A bug to compare with: the members of an Array are copied by reference.
deepCloneShallowArray(h, obj) ==
    IF obj = Null \/ TypeOf(obj) # "object" THEN [h |-> h, v |-> obj]
    ELSE IF h[obj.id].kind = "arr"
    THEN Alloc(h, [EmptyArr EXCEPT !.items = h[obj.id].items])
    ELSE LET al == Alloc(h, EmptyMap)
         IN [h |-> CloneEnts(al.h, al.v.id, h[obj.id].ents, 1), v |-> al.v]

\* deepClone(obj): the heap after the call and the value returned.
deepClone(h, obj) ==
    IF obj = Null \/ TypeOf(obj) # "object" THEN [h |-> h, v |-> obj]
    ELSE IF h[obj.id].kind = "arr"
    THEN LET al == Alloc(h, EmptyArr)
         IN [h |-> CloneItems(al.h, al.v.id, h[obj.id].items, 1), v |-> al.v]
    ELSE LET al == Alloc(h, EmptyMap)
         IN [h |-> CloneEnts(al.h, al.v.id, h[obj.id].ents, 1), v |-> al.v]

\* obj.map(item => deepClone(item)): only the indexed items are visited.
CloneItems(h, id, items, i) ==
    IF i > Len(items) THEN h
    ELSE LET m == deepClone(h, items[i])
         IN CloneItems([m.h EXCEPT ![id].items = Append(@, m.v)], id, items, i + 1)

\* for (key in obj) if (obj.hasOwnProperty(key)) cloned[key] = deepClone(obj[key])
CloneEnts(h, id, ents, i) ==
    IF i > Len(ents) THEN h
    ELSE LET m == deepClone(h, ents[i].v)
         IN CloneEnts(PutProp(m.h, id, ents[i].k, m.v), id, ents, i + 1)

----------------------------------------------------------------------------
(* Utils.deepMerge *)

RECURSIVE deepMerge(_, _, _), MergeKeys(_, _, _, _, _, _)

\* A bug to compare with: the merge is made into target itself, not a copy.
deepMergeInPlace(h, target, source) ==
    IF isObject(h, target) /\ isObject(h, source)
    THEN [h |-> MergeKeys(h, target, target, source, ObjectKeys(h, source), 1), v |-> target]
    ELSE [h |-> h, v |-> target]

\* deepMerge(target, source): the heap after the call and the value returned.
deepMerge(h, target, source) ==
    LET r == deepClone(h, target)
    IN IF isObject(h, target) /\ isObject(h, source)
       THEN [h |-> MergeKeys(r.h, r.v, target, source, ObjectKeys(h, source), 1), v |-> r.v]
       ELSE r

\* A bug to compare with: two Arrays under the same key are concatenated.
MergeKeysConcat(h, result, target, source, keys, i) ==
    IF i > Len(keys) THEN h
    ELSE LET key == keys[i]
             sv == GetProp(h, source, key)
             tv == GetProp(h, target, key)
         IN IF IsArray(h, sv) /\ IsArray(h, tv)
            THEN LET al == Alloc(h, [EmptyArr EXCEPT !.items = h[tv.id].items \o h[sv.id].items])
                 IN MergeKeys(PutProp(al.h, result.id, key, al.v),
                              result, target, source, keys, i + 1)
            ELSE IF isObject(h, sv)
            THEN LET m == deepMerge(h, tv, sv)
                 IN MergeKeys(PutProp(m.h, result.id, key, m.v),
                              result, target, source, keys, i + 1)
            ELSE MergeKeys(PutProp(h, result.id, key, sv),
                           result, target, source, keys, i + 1)

\* The body of for (key in source), from the i-th key on.
MergeKeys(h, result, target, source, keys, i) ==
    IF i > Len(keys) THEN h
    ELSE LET key == keys[i]
             sv == GetProp(h, source, key)
         IN IF ~HasOwn(h, source, key)
            THEN MergeKeys(h, result, target, source, keys, i + 1)
            ELSE IF isObject(h, sv)
            THEN LET al == Alloc(h, EmptyMap)
                     h1 == IF Falsy(GetProp(h, target, key))
                           THEN PutProp(al.h, result.id, key, al.v)
                           ELSE h
                     m == deepMerge(h1, GetProp(h1, target, key), GetProp(h1, source, key))
                 IN MergeKeys(PutProp(m.h, result.id, key, m.v),
                              result, target, source, keys, i + 1)
            ELSE MergeKeys(PutProp(h, result.id, key, sv),
                           result, target, source, keys, i + 1)

----------------------------------------------------------------------------
(* Dot-paths: path.split('.') *)

RECURSIVE SplitFrom(_, _, _, _)

SplitFrom(p, i, cur, acc) ==
    IF i > Len(p) THEN Append(acc, cur)
    ELSE IF p[i] = "." THEN SplitFrom(p, i + 1, <<>>, Append(acc, cur))
    ELSE SplitFrom(p, i + 1, Append(cur, p[i]), acc)

\* path.split('.'): the segments between the dots, empty ones included.
Split(p) == SplitFrom(p, 1, <<>>, <<>>)

RECURSIVE Join(_)

\* The dot-path the caller writes for the segments segs.
Join(segs) ==
    IF Len(segs) = 1 THEN segs[1]
    ELSE segs[1] \o <<".">> \o Join(Tail(segs))

RECURSIVE SegSeqs(_)

\* The lists of exactly n segments.
SegSeqs(n) ==
    IF n = 0 THEN {<<>>}
    ELSE {<<k>> \o rest : k \in SegKeys, rest \in SegSeqs(n - 1)}

\* The dot-paths of one to MaxSegs segments.
Paths == {Join(segs) : segs \in UNION {SegSeqs(n) : n \in 1..MaxSegs}}

----------------------------------------------------------------------------
(* Utils.get, Utils.has, Utils.set *)

RECURSIVE GetLoop(_, _, _, _, _)

\* A bug to compare with: the value found is returned even when undefined,
\* and a null on the way is read through as an empty object.
GetLoopNoDefault(h, current, keys, i, defaultValue) ==
    IF i > Len(keys) THEN current
    ELSE IF current = Null \/ current = Undef THEN Undef
    ELSE GetLoop(h, GetProp(h, current, keys[i]), keys, i + 1, defaultValue)

GetLoop(h, current, keys, i, defaultValue) ==
    IF i > Len(keys)
    THEN IF current # Undef THEN current ELSE defaultValue
    ELSE IF current = Null \/ current = Undef THEN defaultValue
    ELSE GetLoop(h, GetProp(h, current, keys[i]), keys, i + 1, defaultValue)

\* get(obj, path, defaultValue): the value returned.
get(h, obj, p, defaultValue) ==
    IF ~isObject(h, obj) THEN defaultValue
    ELSE GetLoop(h, obj, Split(p), 1, defaultValue)

RECURSIVE HasLoop(_, _, _, _)

\* A bug to compare with: a key counts as present when its value is not
\* undefined, instead of when it is an own property.
HasLoopByValue(h, current, keys, i) ==
    IF i > Len(keys) THEN TRUE
    ELSE IF current = Null \/ current = Undef THEN FALSE
    ELSE IF GetProp(h, current, keys[i]) = Undef THEN FALSE
    ELSE HasLoop(h, GetProp(h, current, keys[i]), keys, i + 1)

HasLoop(h, current, keys, i) ==
    IF i > Len(keys) THEN TRUE
    ELSE IF current = Null \/ current = Undef THEN FALSE
    ELSE IF ~HasOwn(h, current, keys[i]) THEN FALSE
    ELSE HasLoop(h, GetProp(h, current, keys[i]), keys, i + 1)

\* has(obj, path): the boolean returned.
has(h, obj, p) ==
    IF ~isObject(h, obj) THEN FALSE
    ELSE HasLoop(h, obj, Split(p), 1)

RECURSIVE SetLoop(_, _, _, _, _, _)

\* A bug to compare with: the loop runs over every key, the last included,
\* so that the value is stored one level too deep.
SetLoopTooDeep(h, obj, current, keys, i, value) ==
    IF i > Len(keys)
    THEN IF IsRef(current)
         THEN [h |-> PutProp(h, current.id, keys[Len(keys)], value), v |-> obj, threw |-> FALSE]
         ELSE [h |-> h, v |-> Undef, threw |-> TRUE]
    ELSE IF Falsy(GetProp(h, current, keys[i]))
    THEN LET al == Alloc(h, EmptyMap)
         IN IF IsRef(current)
            THEN SetLoop(PutProp(al.h, current.id, keys[i], al.v), obj, al.v, keys, i + 1, value)
            ELSE [h |-> al.h, v |-> Undef, threw |-> TRUE]
    ELSE SetLoop(h, obj, GetProp(h, current, keys[i]), keys, i + 1, value)

\* The loop of set and the final store.  The code is strict-mode code, so
\* creating or writing a property of a primitive throws a TypeError.
SetLoop(h, obj, current, keys, i, value) ==
    IF i > Len(keys) - 1
    THEN IF IsRef(current)
         THEN [h |-> PutProp(h, current.id, keys[Len(keys)], value), v |-> obj, threw |-> FALSE]
         ELSE [h |-> h, v |-> Undef, threw |-> TRUE]
    ELSE IF Falsy(GetProp(h, current, keys[i]))
    THEN LET al == Alloc(h, EmptyMap)
         IN IF IsRef(current)
            THEN SetLoop(PutProp(al.h, current.id, keys[i], al.v), obj, al.v, keys, i + 1, value)
            ELSE [h |-> al.h, v |-> Undef, threw |-> TRUE]
    ELSE SetLoop(h, obj, GetProp(h, current, keys[i]), keys, i + 1, value)

\* set(obj, path, value): the heap after the call, the value returned and
\* whether the call threw instead of returning.
set(h, obj, p, value) ==
    IF ~isObject(h, obj) THEN [h |-> h, v |-> obj, threw |-> FALSE]
    ELSE SetLoop(h, obj, obj, Split(p), 1, value)

----------------------------------------------------------------------------
(* Utils.isEqual *)

RECURSIVE isEqual(_, _, _)

\* isEqual(a, b): the boolean returned (acyclic values only).
isEqual(h, va, vb) ==
    IF StrictEq(va, vb) THEN TRUE
    ELSE IF va = Null \/ vb = Null THEN StrictEq(va, vb)
    ELSE IF TypeOf(va) # TypeOf(vb) THEN FALSE
    ELSE IF TypeOf(va) = "object"
    THEN IF IsArray(h, va) # IsArray(h, vb) THEN FALSE
         ELSE LET keysA == ObjectKeys(h, va)
                  keysB == ObjectKeys(h, vb)
              IN IF Len(keysA) # Len(keysB) THEN FALSE
                 ELSE \A i \in 1..Len(keysA) :
                        /\ HasOwn(h, vb, keysA[i])
                        /\ isEqual(h, GetProp(h, va, keysA[i]), GetProp(h, vb, keysA[i]))
    ELSE FALSE

----------------------------------------------------------------------------
(* The caller: it builds the arguments, makes one call on them, and may    *)
(* then go on using what it holds.                                         *)

\* The value the caller writes into an object it holds after a call.
Mark == Str("M")

\* Literals passed as the value argument of set.
XTrees == {Str("s"), Map(<<>>)}

\* Values passed as the defaultValue argument of get.
DVals == {Undef, Str("D")}

\* Two argument values of at most MaxNodes nodes together.
InitPair ==
    \E n \in 1..(MaxNodes - 1) :
      \E ta \in TreesExact(n), tb \in TreesUpTo(MaxNodes - n) :
        LET ba == Build(<<>>, ta)
            bb == Build(ba.h, tb)
        IN /\ heap = bb.h
           /\ a = ba.v
           /\ b = bb.v
           /\ path = <<>>
           /\ x = Undef

\* One argument value of at most MaxCloneNodes nodes.
InitOne ==
    \E ta \in TreesUpTo(MaxCloneNodes) :
        LET ba == Build(<<>>, ta)
        IN /\ heap = ba.h
           /\ a = ba.v
           /\ b = Undef
           /\ path = <<>>
           /\ x = Undef

\* An obj of at most MaxObjNodes nodes, a dot-path and a value.
InitPath ==
    \E ta \in TreesUpTo(MaxObjNodes), p \in Paths, tx \in XTrees :
        LET ba == Build(<<>>, ta)
            bx == Build(ba.h, tx)
        IN /\ heap = bx.h
           /\ a = ba.v
           /\ b = Undef
           /\ path = p
           /\ x = bx.v

\* Nothing timed has been called.
TimedIdle ==
    /\ now = 0
    /\ timers = <<>>
    /\ tasks = <<>>
    /\ log = <<>>
    /\ elements = <<>>
    /\ Notify = [container |-> Null, activeCount |-> 0]

InitRest ==
    /\ TimedIdle
    /\ dflt = Undef
    /\ op = "init"
    /\ ret = Undef
    /\ threw = FALSE
    /\ heap0 = heap
    /\ heap1 = heap
    /\ args = <<>>
    /\ calls = 0

Init == InitPair /\ InitRest

\* The caller returns from a call that changed the heap to h and gave v.
Returned(name, h, v, t) ==
    /\ op' = name
    /\ heap0' = heap
    /\ heap' = h
    /\ heap1' = h
    /\ ret' = v
    /\ threw' = t
    /\ UNCHANGED timedVars

\* c = deepClone(a)
DeepClone ==
    /\ op = "init"
    /\ LET r == deepClone(heap, a) IN Returned("deepClone", r.h, r.v, FALSE)
    /\ UNCHANGED <<a, b, path, x, dflt, args, calls>>

\* r = deepMerge(a, b)
DeepMerge ==
    /\ op = "init"
    /\ LET r == deepMerge(heap, a, b) IN Returned("deepMerge", r.h, r.v, FALSE)
    /\ UNCHANGED <<a, b, path, x, dflt, args, calls>>

Bool(p) == IF p THEN True ELSE [t |-> "bool", s |-> "false"]

\* r = isEqual(a, b)
IsEqual ==
    /\ op = "init"
    /\ Returned("isEqual", heap, Bool(isEqual(heap, a, b)), FALSE)
    /\ UNCHANGED <<a, b, path, x, dflt, args, calls>>

\* After c = deepClone(a) the caller writes into an object it reaches
\* through c ...
MutateClone ==
    /\ op = "deepClone"
    /\ \E id \in Reach(heap, ret), k \in SegKeys :
         heap' = PutProp(heap, id, k, Mark)
    /\ op' = "mutateClone"
    /\ UNCHANGED <<a, b, path, x, dflt, ret, threw, heap0, heap1, args, calls>>
    /\ UNCHANGED timedVars

\* ... or into an object it reaches through a.
MutateOriginal ==
    /\ op = "deepClone"
    /\ \E id \in Reach(heap, a), k \in SegKeys :
         heap' = PutProp(heap, id, k, Mark)
    /\ op' = "mutateOriginal"
    /\ UNCHANGED <<a, b, path, x, dflt, ret, threw, heap0, heap1, args, calls>>
    /\ UNCHANGED timedVars

\* After c = deepClone(a): r = isEqual(c, a)
IsEqualClone ==
    /\ op = "deepClone"
    /\ Returned("deepClone;isEqual", heap, Bool(isEqual(heap, ret, a)), FALSE)
    /\ UNCHANGED <<a, b, path, x, dflt, args, calls>>

\* The caller of deepMerge and isEqual.
Next == DeepMerge \/ IsEqual

Spec == Init /\ [][Next]_vars

\* The caller of deepClone.
InitClone == InitOne /\ InitRest

NextClone == DeepClone \/ MutateClone \/ MutateOriginal \/ IsEqualClone

SpecClone == InitClone /\ [][NextClone]_vars

----------------------------------------------------------------------------
(* The caller of the dot-path operations. *)

InitPathOps == InitPath /\ InitRest

\* a = deepClone(a): the caller goes on with a copy of obj.
CloneArg ==
    /\ op = "init"
    /\ LET r == deepClone(heap, a)
       IN /\ Returned("cloned", r.h, r.v, FALSE)
          /\ a' = r.v
    /\ UNCHANGED <<b, path, x, dflt, args, calls>>

\* r = set(a, path, x)
Set ==
    /\ op \in {"init", "cloned"}
    /\ LET r == set(heap, a, path, x)
       IN Returned(IF op = "cloned" THEN "cloned;set" ELSE "set", r.h, r.v, r.threw)
    /\ UNCHANGED <<a, b, path, x, dflt, args, calls>>

\* r = get(a, path, d)
Get ==
    /\ op = "init"
    /\ \E d \in DVals :
         /\ dflt' = d
         /\ Returned("get", heap, get(heap, a, path, d), FALSE)
    /\ UNCHANGED <<a, b, path, x, args, calls>>

\* r = has(a, path)
Has ==
    /\ op = "init"
    /\ Returned("has", heap, Bool(has(heap, a, path)), FALSE)
    /\ UNCHANGED <<a, b, path, x, dflt, args, calls>>

\* result = set(...) has returned; r = get(result, path)
GetResult ==
    /\ op \in {"set", "cloned;set"}
    /\ ~threw
    /\ Returned(IF op = "set" THEN "set;get" ELSE "cloned;set;get",
                heap, get(heap, ret, path, Undef), FALSE)
    /\ UNCHANGED <<a, b, path, x, dflt, args, calls>>

NextPath == CloneArg \/ Set \/ Get \/ Has \/ GetResult

SpecPath == InitPathOps /\ [][NextPath]_vars

----------------------------------------------------------------------------
(* What the properties below speak of. *)

RECURSIVE StructEq(_, _)

\* Structural equality of two values given by their structure: primitives are
\* the same primitive, sequences have the same length and equal members,
\* keyed mappings have the same keys and equal values under each key.
StructEq(t1, t2) ==
    IF t1.t \notin {"arr", "map"} \/ t2.t \notin {"arr", "map"} THEN t1 = t2
    ELSE /\ t1.t = t2.t
         /\ Len(t1.items) = Len(t2.items)
         /\ \A i \in 1..Len(t1.items) : StructEq(t1.items[i], t2.items[i])
         /\ EntKeys(t1.ents) = EntKeys(t2.ents)
         /\ \A k \in EntKeys(t1.ents) :
              StructEq(t1.ents[EntIndex(t1.ents, k)].v, t2.ents[EntIndex(t2.ents, k)].v)

\* Both arguments of deepMerge were keyed mappings.
MergedMappings == op = "deepMerge" /\ isObject(heap0, a) /\ isObject(heap0, b)

KeysOf(h, v) == EntKeys(h[v.id].ents)

\* The call is deepClone(a), possibly followed by a write of the caller.
AfterClone == op \in {"deepClone", "mutateClone", "mutateOriginal"}

\* C1: the clone returned by deepClone(a) is made of fresh objects only, none
\* of them reachable from a, so a write into the clone at any depth leaves the
\* structure of a as it was and a write into a leaves the clone as it was.
C1_CloneSharesNothing ==
    AfterClone =>
        /\ Reach(heap, ret) \cap Reach(heap, a) = {}
        /\ \A id \in Reach(heap, ret) : id > Len(heap0)
        /\ op = "mutateClone" => Abs(heap, a) = Abs(heap1, a)
        /\ op = "mutateOriginal" => Abs(heap, ret) = Abs(heap1, ret)

\* A container nested in the clone of a nested value has been written into.
C1_Witness ==
    /\ op = "mutateClone"
    /\ \E id \in Reach(heap, ret) : id # ret.id /\ heap[id] # heap1[id]

\* C2: deepMerge(a, b) of two keyed mappings has a's value under every key
\* only in a, b's value under every key only in b, and the merge of the two
\* values under every key in both whose values are both keyed mappings.
C2_MergeKeepsBothSides ==
    MergedMappings =>
        \A k \in KeysOf(heap0, a) \cup KeysOf(heap0, b) :
            LET va == GetProp(heap0, a, k)
                vb == GetProp(heap0, b, k)
                vr == GetProp(heap, ret, k)
                m == deepMerge(heap0, va, vb)
            IN /\ k \notin KeysOf(heap0, b) =>
                    StructEq(Abs(heap, vr), Abs(heap0, va))
               /\ k \notin KeysOf(heap0, a) =>
                    StructEq(Abs(heap, vr), Abs(heap0, vb))
               /\ (k \in KeysOf(heap0, a) /\ k \in KeysOf(heap0, b)
                     /\ isObject(heap0, va) /\ isObject(heap0, vb)) =>
                    StructEq(Abs(heap, vr), Abs(m.h, m.v))

\* C3: deepMerge(a, b) leaves both arguments as they were, every object that
\* existed before the call included, and returns an object other than a.
C3_MergeLeavesArguments ==
    op = "deepMerge" =>
        /\ Abs(heap, a) = Abs(heap0, a)
        /\ Abs(heap, b) = Abs(heap0, b)
        /\ \A id \in 1..Len(heap0) : heap[id] = heap0[id]
        /\ IsRef(a) => ret # a

\* Two keyed mappings holding keyed mappings under the same key were merged.
C3_Witness ==
    /\ MergedMappings
    /\ ret # a
    /\ \E k \in KeysOf(heap0, a) \cap KeysOf(heap0, b) :
         /\ isObject(heap0, GetProp(heap0, a, k))
         /\ isObject(heap0, GetProp(heap0, b, k))

\* C4: under every key of b whose value is not a keyed mapping, deepMerge(a, b)
\* of two keyed mappings holds b's value, whatever a held under that key.
C4_MergeOverwrites ==
    MergedMappings =>
        \A k \in KeysOf(heap0, b) :
            ~isObject(heap0, GetProp(heap0, b, k)) =>
                /\ HasOwn(heap, ret, k)
                /\ GetProp(heap, ret, k) = GetProp(heap0, b, k)
                /\ Abs(heap, GetProp(heap, ret, k)) = Abs(heap0, GetProp(heap0, b, k))

\* Both mappings held a sequence under the same key, and the result holds b's.
C4_Witness ==
    /\ MergedMappings
    /\ \E k \in KeysOf(heap0, a) \cap KeysOf(heap0, b) :
         /\ IsArray(heap0, GetProp(heap0, a, k))
         /\ IsArray(heap0, GetProp(heap0, b, k))
         /\ GetProp(heap, ret, k) = GetProp(heap0, b, k)

----------------------------------------------------------------------------
(* Dot-paths read on the structure of a value. *)

NotFound == [found |-> FALSE, v |-> Undef]

RECURSIVE Addr(_, _), AddrMap(_, _)

\* What the segments segs address in the value of structure t, each segment
\* naming an own property of the value reached so far: a key of a keyed
\* mapping, an index (or a name) of a sequence, a character index of a text.
Addr(t, segs) ==
    IF segs = <<>> THEN [found |-> TRUE, v |-> t]
    ELSE LET k == Head(segs)
         IN IF t.t \in {"arr", "map"}
            THEN IF IsIndexKey(k) /\ IndexOf(k) <= Len(t.items)
                 THEN Addr(t.items[IndexOf(k)], Tail(segs))
                 ELSE IF k \in EntKeys(t.ents)
                 THEN Addr(t.ents[EntIndex(t.ents, k)].v, Tail(segs))
                 ELSE NotFound
            ELSE IF t.t = "str" /\ t.s # "" /\ k = IndexKeys[1]
            THEN Addr(t, Tail(segs))
            ELSE NotFound

\* The same, each segment naming a key of a keyed mapping and nothing else.
AddrMap(t, segs) ==
    IF segs = <<>> THEN [found |-> TRUE, v |-> t]
    ELSE IF t.t = "map" /\ Head(segs) \in EntKeys(t.ents)
    THEN AddrMap(t.ents[EntIndex(t.ents, Head(segs))].v, Tail(segs))
    ELSE NotFound

Segs == Split(path)

Prefix(n) == SubSeq(Segs, 1, n)

TruthyPrim(t) == t.t \in {"bool", "num", "str"} /\ ~Falsy(t)

\* A proper prefix of path addresses a truthy primitive in the value v.
PrefixOnPrimitive(h, v) ==
    \E n \in 1..(Len(Segs) - 1) :
        LET r == Addr(Abs(h, v), Prefix(n)) IN r.found /\ TruthyPrim(r.v)

C6_SetCreatesMappings ==
    (op \in {"set", "cloned;set"} /\ isObject(heap0, a)) =>
        /\ ~threw
        /\ ret = a
        /\ \A n \in 1..(Len(Segs) - 1) :
             LET r == AddrMap(Abs(heap, a), Prefix(n)) IN r.found /\ r.v.t = "map"
        /\ LET r == AddrMap(Abs(heap, a), Segs) IN r.found /\ r.v = Abs(heap, x)

\* C7 as stated: get returns the default unless obj is a keyed mapping and
\* every segment is a key of the keyed mapping reached, and then the value
\* addressed (an undefined value counting as an absent one).
C7_GetThroughMappingsOnly ==
    op = "get" =>
        LET r == AddrMap(Abs(heap, a), Segs)
        IN Abs(heap, ret) = IF isObject(heap, a) /\ r.found /\ r.v # Undef
                            THEN r.v ELSE dflt

\* C7 as amended: get returns the default when obj is not a keyed mapping,
\* when a segment is no own property of the value reached before it (a null
\* or absent value has none), and when the value addressed is undefined; it
\* returns the value addressed otherwise.
C7_GetOrDefault ==
    op = "get" =>
        LET r == Addr(Abs(heap, a), Segs)
        IN /\ Abs(heap, ret) = IF isObject(heap, a) /\ r.found /\ r.v # Undef
                               THEN r.v ELSE dflt
           /\ IsRef(ret) => ret \in {Ref(id) : id \in Reach(heap, a)}

\* get({a: {b: 's'}}, 'a.a', 'D') has returned 'D': the last segment is missing.
C7_Witness ==
    /\ op = "get"
    /\ Len(Segs) = 2
    /\ AddrMap(Abs(heap, a), Prefix(1)).found
    /\ AddrMap(Abs(heap, a), Prefix(1)).v.t = "map"
    /\ ~AddrMap(Abs(heap, a), Segs).found
    /\ dflt = Str("D")
    /\ ret = dflt

\* C8 as stated: has is true exactly when obj is a keyed mapping and every
\* segment is a key of the keyed mapping reached through the segments before.
C8_HasThroughMappingsOnly ==
    op = "has" =>
        ret = Bool(isObject(heap, a) /\ AddrMap(Abs(heap, a), Segs).found)

\* C8 as amended: has is true exactly when obj is a keyed mapping and every
\* segment is an own property of the value reached through the segments
\* before it, whatever kind of value that is.
C8_HasOwnAtEverySegment ==
    op = "has" =>
        ret = Bool(isObject(heap, a) /\ Addr(Abs(heap, a), Segs).found)

\* has has answered true for a path of two segments or more.
C8_Witness ==
    /\ op = "has"
    /\ Len(Segs) >= 2
    /\ ret = True

----------------------------------------------------------------------------
(* isEqual *)

\* C9: isEqual is reflexive and symmetric: isEqual(a, a) and isEqual(b, b)
\* are true and isEqual(a, b) is isEqual(b, a).
C9_EqualReflexiveSymmetric ==
    op = "isEqual" =>
        /\ isEqual(heap, a, a)
        /\ isEqual(heap, b, b)
        /\ ret = Bool(isEqual(heap, b, a))

\* C10: isEqual(a, b) is true exactly when a and b are structurally equal.
C10_EqualIsStructural ==
    op = "isEqual" => ret = Bool(StructEq(Abs(heap, a), Abs(heap, b)))

----------------------------------------------------------------------------
(* A law that joins deepClone and isEqual.                                  *)

\* C11: for every value v, isEqual(deepClone(v), v) returns true.
C11_CloneIsEqual ==
    op = "deepClone;isEqual" => ret = True

----------------------------------------------------------------------------
(* Numbers and texts: conversion and comparison.                           *)

\* The number n, held as its decimal numeral.
Num(n) == [t |-> "num", s |-> ToString(n)]

One == Num(1)

\* Numbers of the model are natural numbers of at most MaxDigits digits.
MaxDigits == 3

RECURSIVE Pow10(_)

Pow10(n) == IF n = 0 THEN 1 ELSE 10 * Pow10(n - 1)

\* The natural number held by a number value other than NaN.
NumVal(v) == CHOOSE n \in 0..Pow10(MaxDigits) : ToString(n) = v.s

Digits == "0123456789"

IsDigit(c) == \E i \in 1..Len(Digits) : SubSeq(Digits, i, i) = c

DigitVal(c) == (CHOOSE i \in 1..Len(Digits) : SubSeq(Digits, i, i) = c) - 1

RECURSIVE DigitsValue(_)

\* The number a sequence of decimal digits denotes.
DigitsValue(cs) ==
    IF cs = <<>> THEN 0
    ELSE 10 * DigitsValue(SubSeq(cs, 1, Len(cs) - 1)) + DigitVal(cs[Len(cs)])

\* Number(s) of a text s without white space, sign, point or exponent: the
\* empty text is 0, a run of digits is the number it denotes, anything else
\* is NaN.
StringToNumber(s) ==
    LET cs == CharsOf(s)
    IN IF \A i \in 1..Len(cs) : IsDigit(cs[i]) THEN Num(DigitsValue(cs)) ELSE NaN

\* Number(v) of a primitive v.
ToNumber(v) ==
    CASE v.t = "num" -> v
      [] v.t = "null" -> Zero
      [] v.t = "bool" -> IF v.s = "true" THEN One ELSE Zero
      [] v.t = "str" -> StringToNumber(v.s)
      [] OTHER -> NaN

RECURSIVE ToStr(_, _), JoinItems(_, _, _)

\* String(v): an Array is its members joined by commas, null and undefined
\* members as the empty text; a plain object is "[object Object]".
ToStr(h, v) ==
    CASE v.t = "null" -> "null"
      [] v.t = "undef" -> "undefined"
      [] v.t = "fn" -> "function " \o v.s \o "() { [native code] }"
      [] v.t = "ref" -> IF h[v.id].kind = "arr" THEN JoinItems(h, h[v.id].items, 1)
                        ELSE "[object Object]"
      [] OTHER -> v.s

JoinItems(h, items, i) ==
    IF i > Len(items) THEN ""
    ELSE (IF i > 1 THEN "," ELSE "")
         \o (IF items[i] \in {Null, Undef} THEN "" ELSE ToStr(h, items[i]))
         \o JoinItems(h, items, i + 1)

\* The property key a value used as a property name stands for.
ToPropertyKey(h, v) == CharsOf(ToStr(h, v))

\* The primitive an operand of < stands for: an object is its String.
ToPrimitive(h, v) == IF v.t \in {"ref", "fn"} THEN Str(ToStr(h, v)) ELSE v

UpperCase == "ABCDEFGHIJKLMNOPQRSTUVWXYZ"
LowerCase == "abcdefghijklmnopqrstuvwxyz"

\* The characters of the model in the order of their code units.
CodeUnitOrder == "0123456789ABCDEFGHIJKLMNOPQRSTUVWXYZ[]abcdefghijklmnopqrstuvwxyz{}"

CodeUnitRank(c) == CHOOSE i \in 1..Len(CodeUnitOrder) : SubSeq(CodeUnitOrder, i, i) = c

RECURSIVE toLowerCase(_)

\* s.toLowerCase()
toLowerCase(s) ==
    IF s = "" THEN ""
    ELSE LET c == Head(s)
             l == IF \E i \in 1..Len(UpperCase) : SubSeq(UpperCase, i, i) = c
                  THEN LET i == CHOOSE i \in 1..Len(UpperCase) : SubSeq(UpperCase, i, i) = c
                       IN SubSeq(LowerCase, i, i)
                  ELSE c
         IN l \o toLowerCase(Tail(s))

RECURSIVE TextLess(_, _)

\* s < t for two texts: the first differing code unit decides, a proper
\* prefix comes first.
TextLess(s, t) ==
    IF t = "" THEN FALSE
    ELSE IF s = "" THEN TRUE
    ELSE IF Head(s) = Head(t) THEN TextLess(Tail(s), Tail(t))
    ELSE CodeUnitRank(Head(s)) < CodeUnitRank(Head(t))

\* v < w for two primitives: two texts compare as texts, anything else as
\* numbers, and a comparison with NaN is false.
Less(v, w) ==
    IF v.t = "str" /\ w.t = "str" THEN TextLess(v.s, w.s)
    ELSE LET nv == ToNumber(v)
             nw == ToNumber(w)
         IN nv # NaN /\ nw # NaN /\ NumVal(nv) < NumVal(nw)

----------------------------------------------------------------------------
(* Data.sortBy *)

\* What a call threw: new Error(msg), or a TypeError the engine raised.
Err(msg) == [t |-> "error", s |-> msg, name |-> "Error"]

TypeError == [t |-> "error", s |-> "", name |-> "TypeError"]

\* A key or order argument given as an Array of names.
List(ks) == [t |-> "list", ks |-> ks]

\* A key argument given as one name.
KeyName(k) == [t |-> "name", k |-> k]

\* keys = Array.isArray(key) ? key : [key]
KeyList(key) == IF key.t = "list" THEN key.ks ELSE <<key.k>>

\* orders = Array.isArray(order) ? order : [order || 'asc']
OrderList(order) ==
    IF order.t = "list" THEN order.ks
    ELSE <<IF Falsy(order) THEN "asc" ELSE order.s>>

\* A text value compares by its lower-case form.
Lowered(v) == IF TypeOf(v) = "string" THEN Str(toLowerCase(v.s)) ELSE v

RECURSIVE compare(_, _, _, _, _, _)

\* The comparator handed to sort, from key i on: negative, zero or positive.
compare(h, ea, eb, keys, orders, i) ==
    IF i > Len(keys) THEN 0
    ELSE LET o == IF i <= Len(orders) /\ orders[i] # "" THEN orders[i] ELSE "asc"
             valA == Lowered(GetProp(h, ea, keys[i]))
             valB == Lowered(GetProp(h, eb, keys[i]))
             primA == ToPrimitive(h, valA)
             primB == ToPrimitive(h, valB)
         IN IF Less(primA, primB) THEN (IF o = "asc" THEN -1 ELSE 1)
            ELSE IF Less(primB, primA) THEN (IF o = "asc" THEN 1 ELSE -1)
            ELSE compare(h, ea, eb, keys, orders, i + 1)

\* The comparator's results on the elements of items, as a matrix (rows of
\* tuples, each entry computed once).
Compared(h, items, keys, orders) ==
    [i \in 1..Len(items) |->
        [j \in 1..Len(items) |-> compare(h, items[i], items[j], keys, orders, 1)] \o <<>>]
    \o <<>>

\* Whether the comparator is a consistent comparison function for the
\* elements of items: its ties form an equivalence and its strict results are
\* transitive.  Array.prototype.sort promises a sorted, stable result only
\* then; otherwise the order of the result is implementation-defined.
Consistent(c, n) ==
    \A i, j, k \in 1..n :
        /\ c[i][i] = 0
        /\ c[i][j] = 0 => c[j][i] = 0
        /\ c[i][j] = 0 /\ c[j][k] = 0 => c[i][k] = 0
        /\ c[i][j] < 0 /\ c[j][k] < 0 => c[i][k] < 0
        /\ c[i][j] > 0 /\ c[j][k] > 0 => c[i][k] > 0

RECURSIVE InsertSorted(_, _, _)

\* The positions in sorted with position e put after the last one that
\* does not come after it.
InsertSorted(c, sorted, e) ==
    IF sorted = <<>> \/ c[sorted[Len(sorted)]][e] <= 0 THEN Append(sorted, e)
    ELSE Append(InsertSorted(c, SubSeq(sorted, 1, Len(sorted) - 1), e), sorted[Len(sorted)])

RECURSIVE StableOrder(_, _)

\* The positions 1..n in sorted order, ties in their original order.
StableOrder(c, n) ==
    IF n = 0 THEN <<>> ELSE InsertSorted(c, StableOrder(c, n - 1), n)

\* Every order of the positions 1..n.
Orders(n) == {p \in [1..n -> 1..n] : \A i, j \in 1..n : p[i] = p[j] => i = j}

\* The orders sort may leave the elements of items in.
SortOrders(h, items, keys, orders) ==
    LET c == Compared(h, items, keys, orders)
    IN IF Consistent(c, Len(items)) THEN {StableOrder(c, Len(items))}
       ELSE Orders(Len(items))

\* The elements of items that are not undefined, then how many are.
Defined(items) == SelectSeq(items, LAMBDA v : v # Undef)

\* sortBy(array, key, order): the outcomes of the call, each the heap after
\* it, the value returned or thrown, and whether it threw.  sort moves the
\* undefined elements to the end without comparing them; the comparator reads
\* a property of every other element, which throws on null.
sortBy(h, array, key, order) ==
    IF ~IsArray(h, array)
    THEN {[h |-> h, v |-> Err("Input must be an array"), threw |-> TRUE]}
    ELSE LET keys == KeyList(key)
             orders == OrderList(order)
             items == h[array.id].items
             defined == Defined(items)
             undefs == [i \in 1..(Len(items) - Len(defined)) |-> Undef]
         IN IF Len(defined) >= 2 /\ Len(keys) >= 1
               /\ \E i \in 1..Len(defined) : defined[i] = Null
            THEN {[h |-> Alloc(h, [EmptyArr EXCEPT !.items = items]).h,
                   v |-> TypeError, threw |-> TRUE]}
            ELSE {LET sorted == [i \in 1..Len(defined) |-> defined[p[i]]] \o undefs
                      al == Alloc(h, [EmptyArr EXCEPT !.items = sorted])
                  IN [h |-> al.h, v |-> al.v, threw |-> FALSE] :
                  p \in SortOrders(h, defined, keys, orders)}

\* Elements in the array argument of sortBy.
MaxSortLen == 3

\* The elements sorted: keyed mappings with a number under a and, or not, a
\* text under n.
SortElems ==
    {Map(<<[k |-> <<"a">>, v |-> av]>>) : av \in {Zero, One}}
    \cup {Map(<<[k |-> <<"n">>, v |-> Str(nv)], [k |-> <<"a">>, v |-> av]>>) :
            nv \in {"Bob", "amy", "bob"}, av \in {Zero, One}}

\* The key and order arguments: one name or several, no order, one or several.
SortKeyArgs == {KeyName(<<"n">>), List(<<<<"n">>, <<"a">>>>), List(<<<<"a">>, <<"n">>>>)}

SortOrderArgs == {Undef, Str("desc"), List(<<"asc", "desc">>)}

\* An array of at most MaxSortLen elements.
InitSort ==
    /\ \E n \in 0..MaxSortLen :
         \E items \in [1..n -> SortElems] :
           LET ba == Build(<<>>, Arr(items))
           IN /\ heap = ba.h
              /\ a = ba.v
    /\ b = Undef
    /\ path = <<>>
    /\ x = Undef
    /\ InitRest

\* r = sortBy(a, key, order)
SortBy ==
    /\ op = "init"
    /\ \E key \in SortKeyArgs, order \in SortOrderArgs :
         /\ args' = [key |-> key, order |-> order]
         /\ \E r \in sortBy(heap, a, key, order) : Returned("sortBy", r.h, r.v, r.threw)
    /\ calls' = 0
    /\ UNCHANGED <<a, b, path, x, dflt>>

\* The caller of sortBy.
SpecSort == InitSort /\ [][SortBy]_vars

\* The elements sortBy was given and what its comparator says of them.
SortInput == heap0[a.id].items

SortCompared == Compared(heap0, SortInput, KeyList(args.key), OrderList(args.order))

\* The position of element e in a sequence that holds it once.
PosIn(seq, e) == CHOOSE i \in 1..Len(seq) : seq[i] = e

\* C12: sortBy is stable: two elements that compare equal on all the sort keys
\* appear in the output in the same relative order as in the input.
C12_Stable ==
    op = "sortBy" /\ ~threw =>
        LET out == heap[ret.id].items
            c == SortCompared
        IN \A i, j \in 1..Len(SortInput) :
             i < j /\ c[i][j] = 0 =>
                PosIn(out, SortInput[i]) < PosIn(out, SortInput[j])

\* C13: sortBy returns a new sequence, a permutation of its argument, ordered
\* by the keys in turn: no element of the result comes after one that the
\* comparison (text in lower case, direction by orders, ties falling through
\* to the next key) puts after it.
C13_SortedPermutation ==
    op = "sortBy" =>
        /\ ~threw
        /\ IsArray(heap, ret)
        /\ ret.id \notin 1..Len(heap0)
        /\ heap[a.id] = heap0[a.id]
        /\ LET out == heap[ret.id].items
               c == Compared(heap, out, KeyList(args.key), OrderList(args.order))
           IN /\ \E p \in Orders(Len(SortInput)) :
                    out = [i \in 1..Len(SortInput) |-> SortInput[p[i]]]
              /\ \A i, j \in 1..Len(out) : i < j => c[i][j] <= 0

Sign(n) == IF n < 0 THEN -1 ELSE IF n > 0 THEN 1 ELSE 0

\* C14: the comparison sortBy applies is a total pre-order on the elements,
\* whatever the kinds of their key values: cmp(a, b) and cmp(b, a) have
\* opposite signs or are both 0, and cmp(a, b) <= 0 and cmp(b, c) <= 0 imply
\* cmp(a, c) <= 0.
C14_TotalPreorder ==
    op = "sortBy" =>
        LET c == SortCompared
        IN \A i, j, k \in 1..Len(SortInput) :
             /\ Sign(c[i][j]) = -Sign(c[j][i])
             /\ c[i][j] <= 0 /\ c[j][k] <= 0 => c[i][k] <= 0

\* The first half of C14 alone: the signs of cmp(a, b) and cmp(b, a).
SortSignsOpposite ==
    op = "sortBy" =>
        LET c == SortCompared
        IN \A i, j \in 1..Len(SortInput) : Sign(c[i][j]) = -Sign(c[j][i])

\* Where every element has a text under n the comparison is consistent, and
\* the result is sorted and stable.
SortOfComparable ==
    op = "sortBy" /\ (\A i \in 1..Len(SortInput) : HasOwn(heap0, SortInput[i], <<"n">>)) =>
        /\ Consistent(SortCompared, Len(SortInput))
        /\ C12_Stable
        /\ C13_SortedPermutation

----------------------------------------------------------------------------
(* Data.groupBy *)

\* A key argument given as a function: item => typeof item.
KeyFunction == [t |-> "function", s |-> "typeof"]

RECURSIVE GroupLoop(_, _, _, _, _, _)

\* The loop of groupBy from element i on, after n calls of the key function:
\* the heap, the value returned or thrown, whether it threw, and the calls.
GroupLoop(h, result, items, key, i, n) ==
    IF i > Len(items) THEN [h |-> h, v |-> result, threw |-> FALSE, calls |-> n]
    ELSE IF key.t # "function" /\ items[i] \in {Null, Undef}
    THEN [h |-> h, v |-> TypeError, threw |-> TRUE, calls |-> n]
    ELSE LET groupKey == IF key.t = "function" THEN Str(TypeOf(items[i]))
                         ELSE GetProp(h, items[i], key.k)
             k == ToPropertyKey(h, groupKey)
             m == IF key.t = "function" THEN n + 1 ELSE n
             h1 == IF Falsy(GetProp(h, result, k))
                   THEN LET al == Alloc(h, EmptyArr) IN PutProp(al.h, result.id, k, al.v)
                   ELSE h
             group == GetProp(h1, result, k)
         IN IF ~IsArray(h1, group)
            THEN [h |-> h1, v |-> TypeError, threw |-> TRUE, calls |-> m]
            ELSE GroupLoop([h1 EXCEPT ![group.id].items = Append(@, items[i])],
                           result, items, key, i + 1, m)

\* A bug to compare with: the check throws a TypeError.
groupByTypeError(h, array, key) ==
    IF ~IsArray(h, array)
    THEN [h |-> h, v |-> [TypeError EXCEPT !.s = "Input must be an array"], threw |-> TRUE,
          calls |-> 0]
    ELSE LET al == Alloc(h, EmptyMap)
         IN GroupLoop(al.h, al.v, h[array.id].items, key, 1, 0)

\* groupBy(array, key)
groupBy(h, array, key) ==
    IF ~IsArray(h, array)
    THEN [h |-> h, v |-> Err("Input must be an array"), threw |-> TRUE, calls |-> 0]
    ELSE LET al == Alloc(h, EmptyMap)
         IN GroupLoop(al.h, al.v, h[array.id].items, key, 1, 0)

\* Elements in the array argument of groupBy.
MaxGroupLen == 3

\* The elements grouped: keyed mappings with a text under t or none, a
\* number, null.
GroupElems ==
    {Map(<<[k |-> <<"t">>, v |-> Str(tv)]>>) : tv \in {"a", "b", "constructor"}}
    \cup {Map(<<>>), One, Null}

GroupKeyArgs == {KeyName(<<"t">>), KeyFunction}

\* An array of at most MaxGroupLen elements.
InitGroup ==
    /\ \E n \in 0..MaxGroupLen :
         \E items \in [1..n -> GroupElems] :
           LET ba == Build(<<>>, Arr(items))
           IN /\ heap = ba.h
              /\ a = ba.v
    /\ b = Undef
    /\ path = <<>>
    /\ x = Undef
    /\ InitRest

\* r = groupBy(a, key)
GroupBy ==
    /\ op = "init"
    /\ \E key \in GroupKeyArgs :
         /\ args' = [key |-> key]
         /\ LET r == groupBy(heap, a, key)
            IN /\ Returned("groupBy", r.h, r.v, r.threw)
               /\ calls' = r.calls
    /\ UNCHANGED <<a, b, path, x, dflt>>

\* The caller of groupBy.
SpecGroup == InitGroup /\ [][GroupBy]_vars

\* The key value of an element, where it has one: what the key function
\* returns for it, or what it holds under the key name.
HasKeyValue(e) == args.key.t = "function" \/ e \notin {Null, Undef}

KeyValue(h, e) ==
    IF args.key.t = "function" THEN Str(TypeOf(e)) ELSE GetProp(h, e, args.key.k)

\* The elements of the array whose key value is named k, in input order.
Keyed(h, items, k) ==
    SelectSeq(items, LAMBDA e : HasKeyValue(e) /\ ToPropertyKey(h, KeyValue(h, e)) = k)

\* C15: groupBy returns a mapping from each key value to the elements that
\* have it, in input order: each group holds exactly the elements with its
\* key value, none is empty, and every element is in the group of its key
\* value.
C15_GroupsPartition ==
    op = "groupBy" =>
        /\ ~threw
        /\ isObject(heap, ret)
        /\ LET items == heap0[a.id].items
               groups == heap[ret.id].ents
           IN /\ heap[ret.id].items = <<>>
              /\ \A g \in 1..Len(groups) :
                    /\ IsArray(heap, groups[g].v)
                    /\ heap[groups[g].v.id].items = Keyed(heap0, items, groups[g].k)
                    /\ heap[groups[g].v.id].items # <<>>
              /\ \A i \in 1..Len(items) :
                    /\ HasKeyValue(items[i])
                    /\ ToPropertyKey(heap0, KeyValue(heap0, items[i])) \in EntKeys(groups)

\* Key values that name a method every plain object inherits.
InheritedKeyValue(h, e) ==
    HasKeyValue(e) /\ ToPropertyKey(h, KeyValue(h, e)) \in ObjectPrototypeKeys

\* Where every element has a key value and none names an inherited method,
\* groupBy does what C15 says.
GroupOfOwnNames ==
    op = "groupBy"
    /\ (\A i \in 1..Len(heap0[a.id].items) :
            /\ HasKeyValue(heap0[a.id].items[i])
            /\ ~InheritedKeyValue(heap0, heap0[a.id].items[i]))
    => C15_GroupsPartition

----------------------------------------------------------------------------
(* Data.flatten and Data.flattenArray *)

Infinity == [t |-> "num", s |-> "Infinity"]

RECURSIVE flattenRecursive(_, _, _, _), FlattenMembers(_, _, _, _, _)

\* A bug to compare with: an empty container is kept as a leaf.
flattenRecursiveKeepEmpty(h, item, currentDepth, depth) ==
    IF depth # Infinity /\ currentDepth >= NumVal(depth) THEN <<item>>
    ELSE IF IsRef(item) /\ Len(ObjectKeys(h, item)) > 0
    THEN IF IsArray(h, item)
         THEN FlattenMembers(h, h[item.id].items, currentDepth + 1, depth, 1)
         ELSE FlattenMembers(h, [i \in 1..Len(ObjectKeys(h, item)) |->
                                    GetProp(h, item, ObjectKeys(h, item)[i])],
                             currentDepth + 1, depth, 1)
    ELSE <<item>>

\* flattenRecursive(item, currentDepth): the members of the Array it returns.
\* An Array is walked over its indices, any other object over its own keys.
flattenRecursive(h, item, currentDepth, depth) ==
    IF depth # Infinity /\ currentDepth >= NumVal(depth) THEN <<item>>
    ELSE IF IsArray(h, item)
    THEN FlattenMembers(h, h[item.id].items, currentDepth + 1, depth, 1)
    ELSE IF TypeOf(item) = "object" /\ item # Null
    THEN FlattenMembers(h, [i \in 1..Len(ObjectKeys(h, item)) |->
                               GetProp(h, item, ObjectKeys(h, item)[i])],
                        currentDepth + 1, depth, 1)
    ELSE <<item>>

\* result = result.concat(flattenRecursive(member, currentDepth)) for each
\* member from the i-th on.
FlattenMembers(h, members, currentDepth, depth, i) ==
    IF i > Len(members) THEN <<>>
    ELSE flattenRecursive(h, members[i], currentDepth, depth)
         \o FlattenMembers(h, members, currentDepth, depth, i + 1)

\* flatten(data, depth), with depth = depth || Infinity.
flatten(h, data, depth) ==
    LET d == IF Falsy(depth) THEN Infinity ELSE depth
        al == Alloc(h, [EmptyArr EXCEPT !.items = flattenRecursive(h, data, 0, d)])
    IN [h |-> al.h, v |-> al.v, threw |-> FALSE, calls |-> 0]

\* A bug to compare with: flattenArray without its check.
flattenArrayUnchecked(h, array, depth) == flatten(h, array, depth)

\* flattenArray(array, depth)
flattenArray(h, array, depth) ==
    IF ~IsArray(h, array)
    THEN [h |-> h, v |-> Err("Input must be an array"), threw |-> TRUE, calls |-> 0]
    ELSE flatten(h, array, depth)

\* Nodes in the data argument of flatten.
MaxFlatNodes == 4

\* The depth arguments: omitted, 0, 1, 2.
DepthArgs == {Undef, Zero, One, Num(2)}

\* A data value of at most MaxFlatNodes nodes.
InitFlatten ==
    /\ \E ta \in TreesUpTo(MaxFlatNodes) :
         LET ba == Build(<<>>, ta)
         IN /\ heap = ba.h
            /\ a = ba.v
    /\ b = Undef
    /\ path = <<>>
    /\ x = Undef
    /\ InitRest

\* r = flatten(a, depth), or flatten(a) when depth is undefined
Flatten ==
    /\ op = "init"
    /\ \E depth \in DepthArgs :
         /\ args' = [depth |-> depth]
         /\ LET r == flatten(heap, a, depth)
            IN /\ Returned("flatten", r.h, r.v, r.threw)
               /\ calls' = r.calls
    /\ UNCHANGED <<a, b, path, x, dflt>>

\* The caller of flatten.
SpecFlatten == InitFlatten /\ [][Flatten]_vars

RECURSIVE Leaves(_, _), LeavesOf(_, _, _)

\* The non-container leaves of a value, depth first: the members of a
\* sequence in order, the values of a mapping in the order of its keys.
Leaves(h, v) ==
    IF ~IsRef(v) THEN <<v>>
    ELSE LET c == h[v.id]
         IN LeavesOf(h, c.items \o [i \in 1..Len(c.ents) |-> c.ents[i].v], 1)

LeavesOf(h, members, i) ==
    IF i > Len(members) THEN <<>>
    ELSE Leaves(h, members[i]) \o LeavesOf(h, members, i + 1)

\* C18: flatten(data) with depth omitted returns a new flat sequence of
\* exactly the non-container leaves of data in depth-first order: no member
\* of the result is a container, an empty container contributes nothing, a
\* non-container data yields [data].
C18_FlattenLeaves ==
    op = "flatten" /\ args.depth = Undef =>
        /\ ~threw
        /\ IsArray(heap, ret)
        /\ ret.id \notin 1..Len(heap0)
        /\ heap[ret.id].items = Leaves(heap0, a)
        /\ \A i \in 1..Len(heap[ret.id].items) : ~IsRef(heap[ret.id].items[i])
        /\ ~IsRef(a) => heap[ret.id].items = <<a>>
        /\ \A id \in 1..Len(heap0) : heap[id] = heap0[id]

\* C18 at work: data holds an empty container beside a leaf, one level down.
C18_Witness ==
    /\ op = "flatten" /\ args.depth = Undef
    /\ \E id \in Reach(heap0, a) :
         /\ id # a.id
         /\ \E i \in 1..Len(heap0[id].items) :
              IsRef(heap0[id].items[i]) /\ ObjectKeys(heap0, heap0[id].items[i]) = <<>>
    /\ Len(heap[ret.id].items) = 1

RECURSIVE ItemsAt(_, _, _, _), ItemsAtOf(_, _, _, _, _)

\* What recursion that stops at nesting level depth returns for v found at
\* level: v itself at level depth, the items of its members otherwise.
ItemsAt(h, v, level, depth) ==
    IF level >= depth \/ ~IsRef(v) THEN <<v>>
    ELSE LET c == h[v.id]
         IN ItemsAtOf(h, c.items \o [i \in 1..Len(c.ents) |-> c.ents[i].v], level + 1, depth, 1)

ItemsAtOf(h, members, level, depth, i) ==
    IF i > Len(members) THEN <<>>
    ELSE ItemsAt(h, members[i], level, depth) \o ItemsAtOf(h, members, level, depth, i + 1)

\* C19: flatten(data, depth) stops at depth for every integer depth >= 0:
\* containers above level depth are expanded, an item at level depth is
\* returned as it is, and depth 0 returns [data].
C19_FlattenStopsAtDepth ==
    op = "flatten" /\ args.depth # Undef =>
        /\ ~threw
        /\ IsArray(heap, ret)
        /\ heap[ret.id].items = ItemsAt(heap0, a, 0, NumVal(args.depth))
        /\ args.depth = Zero => heap[ret.id].items = <<a>>

\* For a depth of 1 or more flatten does stop at depth.
FlattenStopsAtPositiveDepth ==
    op = "flatten" /\ args.depth \notin {Undef, Zero} =>
        heap[ret.id].items = ItemsAt(heap0, a, 0, NumVal(args.depth))

----------------------------------------------------------------------------
(* Data.pluck, Data.reduce and the caller of the array-only operations *)

RECURSIVE PluckKeys(_, _, _, _, _), PluckItems(_, _, _, _, _)

\* The loop over keys for one item: result[keys[j]] = item[keys[j]] where
\* the item has the key as its own.
PluckKeys(h, id, item, keys, j) ==
    IF j > Len(keys) THEN h
    ELSE PluckKeys(IF HasOwn(h, item, keys[j])
                   THEN PutProp(h, id, keys[j], GetProp(h, item, keys[j]))
                   ELSE h,
                   id, item, keys, j + 1)

\* array.map(function(item) {...}) from item i on; item.hasOwnProperty throws
\* on null and undefined.
PluckItems(h, out, items, keys, i) ==
    IF i > Len(items) THEN [h |-> h, v |-> out, threw |-> FALSE, calls |-> 0]
    ELSE IF items[i] \in {Null, Undef}
    THEN [h |-> h, v |-> TypeError, threw |-> TRUE, calls |-> 0]
    ELSE LET al == Alloc(h, EmptyMap)
             h2 == PluckKeys(al.h, al.v.id, items[i], keys, 1)
         IN PluckItems([h2 EXCEPT ![out.id].items = Append(@, al.v)], out, items, keys, i + 1)

\* pluck(array, ...keys)
pluck(h, array, keys) ==
    IF ~IsArray(h, array)
    THEN [h |-> h, v |-> Err("Input must be an array"), threw |-> TRUE, calls |-> 0]
    ELSE IF Len(keys) = 0 THEN [h |-> h, v |-> array, threw |-> FALSE, calls |-> 0]
    ELSE LET al == Alloc(h, EmptyArr)
         IN PluckItems(al.h, al.v, h[array.id].items, keys, 1)

\* The callbacks passed to reduce: (acc, item) => item and (acc, item) => acc.
Callbacks == {[t |-> "function", s |-> "item"], [t |-> "function", s |-> "acc"]}

RECURSIVE ReduceLoop(_, _, _, _)

\* array.reduce(callback, initialValue) from item i on: the value and the
\* number of calls of callback.
ReduceLoop(items, callback, acc, i) ==
    IF i > Len(items) THEN [v |-> acc, calls |-> Len(items)]
    ELSE ReduceLoop(items, callback, IF callback.s = "item" THEN items[i] ELSE acc, i + 1)

\* reduce(array, callback, initialValue)
reduce(h, array, callback, initialValue) ==
    IF ~IsArray(h, array)
    THEN [h |-> h, v |-> Err("Input must be an array"), threw |-> TRUE, calls |-> 0]
    ELSE LET r == ReduceLoop(h[array.id].items, callback, initialValue, 1)
         IN [h |-> h, v |-> r.v, threw |-> FALSE, calls |-> r.calls]

\* Nodes in the first argument of an array-only operation.
MaxArgNodes == 3

PluckArgs == {<<>>, <<<<"a">>>>, <<<<"a">>, <<"0">>>>}

\* A first argument of any kind, of at most MaxArgNodes nodes.
InitArrayOnly ==
    /\ \E ta \in TreesUpTo(MaxArgNodes) :
         LET ba == Build(<<>>, ta)
         IN /\ heap = ba.h
            /\ a = ba.v
    /\ b = Undef
    /\ path = <<>>
    /\ x = Undef
    /\ InitRest

\* r = flattenArray(a, depth)
FlattenArray ==
    /\ op = "init"
    /\ \E depth \in DepthArgs :
         /\ args' = [depth |-> depth]
         /\ LET r == flattenArray(heap, a, depth)
            IN /\ Returned("flattenArray", r.h, r.v, r.threw)
               /\ calls' = r.calls
    /\ UNCHANGED <<a, b, path, x, dflt>>

\* r = pluck(a, ...keys)
Pluck ==
    /\ op = "init"
    /\ \E keys \in PluckArgs :
         /\ args' = [keys |-> keys]
         /\ LET r == pluck(heap, a, keys)
            IN /\ Returned("pluck", r.h, r.v, r.threw)
               /\ calls' = r.calls
    /\ UNCHANGED <<a, b, path, x, dflt>>

\* r = reduce(a, callback, initialValue)
Reduce ==
    /\ op = "init"
    /\ \E callback \in Callbacks, initialValue \in {Undef, Zero} :
         /\ args' = [callback |-> callback, initialValue |-> initialValue]
         /\ LET r == reduce(heap, a, callback, initialValue)
            IN /\ Returned("reduce", r.h, r.v, r.threw)
               /\ calls' = r.calls
    /\ UNCHANGED <<a, b, path, x, dflt>>

NextArrayOnly == FlattenArray \/ GroupBy \/ SortBy \/ Pluck \/ Reduce

\* The caller of the array-only operations.
SpecArrayOnly == InitArrayOnly /\ [][NextArrayOnly]_vars

ArrayOnlyOps == {"flattenArray", "groupBy", "sortBy", "pluck", "reduce"}

\* C16: an array-only operation given a first argument that is not a
\* sequence throws an Error with the message 'Input must be an array' before
\* it calls a callback or builds anything; given a sequence it never throws
\* that error.
C16_ArrayOnlyCheck ==
    op \in ArrayOnlyOps =>
        IF ~IsArray(heap0, a)
        THEN /\ threw
             /\ ret = Err("Input must be an array")
             /\ heap = heap0
             /\ calls = 0
        ELSE ret # Err("Input must be an array")

\* C16 at work: a keyed mapping is handed to reduce, which throws.
C16_Witness ==
    /\ op = "reduce"
    /\ isObject(heap0, a)
    /\ threw
    /\ ret = Err("Input must be an array")

----------------------------------------------------------------------------
(* The never-crash policy. *)

\* C17: none of the operations that take any value (get, set and has among
\* them, on every obj and every dot-path) throws.
C17_NeverThrows ==
    op \in {"set", "cloned;set", "get", "has", "cloned", "set;get", "cloned;set;get"} => ~threw

----------------------------------------------------------------------------
(* Data.convertType *)

RECURSIVE IsJSON(_)

\* Whether JSON.parse accepts a text written with digits, letters, brackets
\* and braces only (no white space, comma, colon, quote, sign or point): a
\* numeral without a leading zero, an Array of nothing or of one such value,
\* or the empty object.
IsJSON(cs) ==
    /\ Len(cs) >= 1
    /\ \/ /\ \A i \in 1..Len(cs) : IsDigit(cs[i])
          /\ Len(cs) > 1 => cs[1] # "0"
       \/ /\ Len(cs) >= 2
          /\ cs[1] = "["
          /\ cs[Len(cs)] = "]"
          /\ Len(cs) = 2 \/ IsJSON(SubSeq(cs, 2, Len(cs) - 1))
       \/ cs = <<"{", "}">>

RECURSIVE JSONParse(_, _)

\* JSON.parse(text) of a text that IsJSON: the heap and the value.
JSONParse(h, cs) ==
    IF cs[1] = "{" THEN Alloc(h, EmptyMap)
    ELSE IF cs[1] = "["
    THEN IF Len(cs) = 2 THEN Alloc(h, EmptyArr)
         ELSE LET m == JSONParse(h, SubSeq(cs, 2, Len(cs) - 1))
              IN Alloc(m.h, [EmptyArr EXCEPT !.items = <<m.v>>])
    ELSE [h |-> h, v |-> Num(DigitsValue(cs))]

RECURSIVE Cat(_)

\* The text made of the characters cs.
Cat(cs) == IF cs = <<>> THEN "" ELSE cs[1] \o Cat(Tail(cs))

RECURSIVE JSONStringify(_, _), StringifyItems(_, _, _), StringifyEnts(_, _, _, _, _)

\* JSON.stringify(v) of a value other than undefined, of texts that need no
\* escape: in an Array undefined, NaN and functions are written null, in an
\* object the keys that hold undefined or a function are left out.
JSONStringify(h, v) ==
    CASE v.t = "ref" ->
            IF h[v.id].kind = "arr"
            THEN "[" \o StringifyItems(h, h[v.id].items, 1) \o "]"
            ELSE "{" \o StringifyEnts(h, v, ObjectKeys(h, v), 1, TRUE) \o "}"
      [] v.t = "str" -> "\"" \o v.s \o "\""
      [] v.t = "num" -> IF v.s \in {"NaN", "Infinity"} THEN "null" ELSE v.s
      [] v.t = "bool" -> v.s
      [] OTHER -> "null"

StringifyItems(h, items, i) ==
    IF i > Len(items) THEN ""
    ELSE (IF i > 1 THEN "," ELSE "") \o JSONStringify(h, items[i])
         \o StringifyItems(h, items, i + 1)

StringifyEnts(h, v, keys, i, first) ==
    IF i > Len(keys) THEN ""
    ELSE LET m == GetProp(h, v, keys[i])
         IN IF m.t \in {"undef", "fn"} THEN StringifyEnts(h, v, keys, i + 1, first)
            ELSE (IF first THEN "" ELSE ",")
                 \o "\"" \o Cat(keys[i]) \o "\":" \o JSONStringify(h, m)
                 \o StringifyEnts(h, v, keys, i + 1, FALSE)

\* Number(value)
Number(h, value) == ToNumber(ToPrimitive(h, value))

False == [t |-> "bool", s |-> "false"]

\* The result of a call that returns v without touching the heap.
Gives(h, v) == [h |-> h, v |-> v, threw |-> FALSE, calls |-> 0]

\* The result of a call that returns a new object with the given content.
GivesNew(h, cell) ==
    LET al == Alloc(h, cell) IN [h |-> al.h, v |-> al.v, threw |-> FALSE, calls |-> 0]

\* A bug to compare with: the text is handed to JSON.parse outside a try, so
\* a text that is not JSON ends the call with a SyntaxError.
ParseOrUncaught(h, value, fallback) ==
    IF IsJSON(CharsOf(value.s))
    THEN LET m == JSONParse(h, CharsOf(value.s)) IN Gives(m.h, m.v)
    ELSE [h |-> h, v |-> Err("SyntaxError"), threw |-> TRUE, calls |-> 0]

\* try { return JSON.parse(value); } catch (e) { return fallback; }
ParseOr(h, value, fallback) ==
    IF IsJSON(CharsOf(value.s))
    THEN LET m == JSONParse(h, CharsOf(value.s)) IN Gives(m.h, m.v)
    ELSE GivesNew(h, fallback)

\* convertType(value, targetType) for a targetType that is a text.
convertType(h, value, targetType) ==
    LET type == toLowerCase(targetType)
    IN CASE type = "string" ->
              IF value \in {Null, Undef} THEN Gives(h, Str(""))
              ELSE IF TypeOf(value) = "object" THEN Gives(h, Str(JSONStringify(h, value)))
              ELSE Gives(h, Str(ToStr(h, value)))
         [] type = "number" ->
              LET num == Number(h, value)
              IN Gives(h, IF num = NaN THEN Zero ELSE num)
         [] type = "boolean" ->
              IF value \in {Str("true"), Str("1"), One} THEN Gives(h, True)
              ELSE IF value \in {Str("false"), Str("0"), Zero} THEN Gives(h, False)
              ELSE Gives(h, Bool(~Falsy(value)))
         [] type = "array" ->
              IF IsArray(h, value) THEN Gives(h, value)
              ELSE IF value \in {Null, Undef} THEN GivesNew(h, EmptyArr)
              ELSE IF TypeOf(value) = "string"
              THEN ParseOr(h, value, [EmptyArr EXCEPT !.items = <<value>>])
              ELSE GivesNew(h, [EmptyArr EXCEPT !.items = <<value>>])
         [] type = "object" ->
              IF value \in {Null, Undef} THEN GivesNew(h, EmptyMap)
              ELSE IF TypeOf(value) = "object" THEN Gives(h, value)
              ELSE IF TypeOf(value) = "string"
              THEN ParseOr(h, value, [EmptyMap EXCEPT !.ents = <<[k |-> CharsOf("value"), v |-> value]>>])
              ELSE GivesNew(h, [EmptyMap EXCEPT !.ents = <<[k |-> CharsOf("value"), v |-> value]>>])
         [] OTHER -> Gives(h, value)

\* Characters in a text argument of convertType.
MaxTextLen == 3

\* The characters the text arguments are written with.
TextChars == {"1", "a", "[", "]", "{", "}"}

Texts == {Cat(cs) : cs \in UNION {[1..n -> TextChars] : n \in 0..MaxTextLen}}

\* The values converted: every text, a number, null, undefined, a boolean,
\* an Array and a plain object.
ConvertValues ==
    {Str(s) : s \in Texts}
    \cup {Num(42), Zero, NaN, Null, Undef, True, Arr(<<>>), Arr(<<One>>), Map(<<>>),
          Map(<<[k |-> <<"a">>, v |-> Str("a")]>>)}

TargetTypes == {"string", "number", "boolean", "array", "object", "Number", "date"}

\* One value to convert.
InitConvert ==
    /\ \E ta \in ConvertValues :
         LET ba == Build(<<>>, ta)
         IN /\ heap = ba.h
            /\ a = ba.v
    /\ b = Undef
    /\ path = <<>>
    /\ x = Undef
    /\ InitRest

\* r = convertType(a, targetType)
ConvertType ==
    /\ op = "init"
    /\ \E targetType \in TargetTypes :
         /\ args' = [targetType |-> targetType]
         /\ LET r == convertType(heap, a, targetType)
            IN /\ Returned("convertType", r.h, r.v, r.threw)
               /\ calls' = r.calls
    /\ UNCHANGED <<a, b, path, x, dflt>>

\* The caller of convertType.
SpecConvert == InitConvert /\ [][ConvertType]_vars

\* A text that is numeric: a decimal numeral.
IsNumeral(s) == s # "" /\ \A i \in 1..Len(s) : IsDigit(SubSeq(s, i, i))

\* C20: convertType absorbs malformed input: to 'number' a text that is not
\* numeric gives 0 and a numeral the number it denotes; to 'array' a text
\* that is not valid JSON gives [t] and to 'object' it gives {value: t};
\* convertType(42, 'string') is '42'.
C20_ConvertAbsorbs ==
    op = "convertType" =>
        /\ ~threw
        /\ a.t = "str" /\ args.targetType = "number" =>
              ret = IF IsNumeral(a.s) THEN Num(DigitsValue(CharsOf(a.s))) ELSE Zero
        /\ a.t = "str" /\ ~IsJSON(CharsOf(a.s)) /\ args.targetType = "array" =>
              /\ IsArray(heap, ret)
              /\ ret.id \notin 1..Len(heap0)
              /\ heap[ret.id].items = <<a>>
        /\ a.t = "str" /\ ~IsJSON(CharsOf(a.s)) /\ args.targetType = "object" =>
              /\ isObject(heap, ret)
              /\ ret.id \notin 1..Len(heap0)
              /\ heap[ret.id].ents = <<[k |-> CharsOf("value"), v |-> a]>>
        /\ a = Num(42) /\ args.targetType = "string" => ret = Str("42")

\* C20 at work: a text that opens an Array and never closes it is converted
\* to 'array' and comes back wrapped.
C20_Witness ==
    /\ op = "convertType"
    /\ args.targetType = "array"
    /\ a = Str("[1")
    /\ IsArray(heap, ret)
    /\ heap[ret.id].items = <<Str("[1")>>

----------------------------------------------------------------------------
(* Data.map and Data.filter *)

\* The callbacks passed to map and filter: (value, key) => value,
\* (value, key) => key and (value, key) => 'M'.
ValueCallbacks ==
    {[t |-> "function", s |-> "value"], [t |-> "function", s |-> "key"],
     [t |-> "function", s |-> "mark"]}

\* callback(value, key)
Call(callback, value, key) ==
    CASE callback.s = "value" -> value
      [] callback.s = "key" -> key
      [] OTHER -> Mark

\* The second argument the callback gets for member i of an Array (the
\* index, a number) and for the key k of an object (the name, a text).
IndexArg(i) == Num(i - 1)

KeyArg(k) == Str(Cat(k))

RECURSIVE MapEnts(_, _, _, _, _, _)

\* for (const key in data) if (data.hasOwnProperty(key))
\*     result[key] = callback(data[key], key), from key i on.
MapEnts(h, id, data, callback, keys, i) ==
    IF i > Len(keys) THEN h
    ELSE MapEnts(PutProp(h, id, keys[i], Call(callback, GetProp(h, data, keys[i]), KeyArg(keys[i]))),
                 id, data, callback, keys, i + 1)

\* map(data, callback)
map(h, data, callback) ==
    IF IsArray(h, data)
    THEN LET items == h[data.id].items
             al == Alloc(h, [EmptyArr EXCEPT !.items =
                        [i \in 1..Len(items) |-> Call(callback, items[i], IndexArg(i))]])
         IN [h |-> al.h, v |-> al.v, threw |-> FALSE, calls |-> Len(items)]
    ELSE IF TypeOf(data) = "object" /\ data # Null
    THEN LET al == Alloc(h, EmptyMap)
             keys == ObjectKeys(h, data)
         IN [h |-> MapEnts(al.h, al.v.id, data, callback, keys, 1), v |-> al.v,
             threw |-> FALSE, calls |-> Len(keys)]
    ELSE [h |-> h, v |-> data, threw |-> FALSE, calls |-> 0]

RECURSIVE FilterItems(_, _, _), FilterEnts(_, _, _, _, _, _)

\* data.filter(predicate) from member i on: the members kept.
FilterItems(items, predicate, i) ==
    IF i > Len(items) THEN <<>>
    ELSE (IF Falsy(Call(predicate, items[i], IndexArg(i))) THEN <<>> ELSE <<items[i]>>)
         \o FilterItems(items, predicate, i + 1)

\* A bug to compare with: the entries the predicate rejects are the ones kept.
FilterEntsRejected(h, id, data, predicate, keys, i) ==
    IF i > Len(keys) THEN h
    ELSE FilterEnts(IF Falsy(Call(predicate, GetProp(h, data, keys[i]), KeyArg(keys[i])))
                    THEN PutProp(h, id, keys[i], GetProp(h, data, keys[i]))
                    ELSE h,
                    id, data, predicate, keys, i + 1)

\* for (const key in data)
\*     if (data.hasOwnProperty(key) && predicate(data[key], key)) result[key] = data[key]
FilterEnts(h, id, data, predicate, keys, i) ==
    IF i > Len(keys) THEN h
    ELSE FilterEnts(IF Falsy(Call(predicate, GetProp(h, data, keys[i]), KeyArg(keys[i])))
                    THEN h
                    ELSE PutProp(h, id, keys[i], GetProp(h, data, keys[i])),
                    id, data, predicate, keys, i + 1)

\* filter(data, predicate)
filter(h, data, predicate) ==
    IF IsArray(h, data)
    THEN LET items == h[data.id].items
             al == Alloc(h, [EmptyArr EXCEPT !.items = FilterItems(items, predicate, 1)])
         IN [h |-> al.h, v |-> al.v, threw |-> FALSE, calls |-> Len(items)]
    ELSE IF TypeOf(data) = "object" /\ data # Null
    THEN LET al == Alloc(h, EmptyMap)
             keys == ObjectKeys(h, data)
         IN [h |-> FilterEnts(al.h, al.v.id, data, predicate, keys, 1), v |-> al.v,
             threw |-> FALSE, calls |-> Len(keys)]
    ELSE [h |-> h, v |-> data, threw |-> FALSE, calls |-> 0]

\* Nodes in the data argument of map and filter.
MaxMapNodes == 3

\* A data value of at most MaxMapNodes nodes.
InitMapFilter ==
    /\ \E ta \in TreesUpTo(MaxMapNodes) :
         LET ba == Build(<<>>, ta)
         IN /\ heap = ba.h
            /\ a = ba.v
    /\ b = Undef
    /\ path = <<>>
    /\ x = Undef
    /\ InitRest

\* r = map(a, callback)
DataMap ==
    /\ op = "init"
    /\ \E callback \in ValueCallbacks :
         /\ args' = [callback |-> callback]
         /\ LET r == map(heap, a, callback)
            IN /\ Returned("map", r.h, r.v, r.threw)
               /\ calls' = r.calls
    /\ UNCHANGED <<a, b, path, x, dflt>>

\* r = filter(a, predicate)
DataFilter ==
    /\ op = "init"
    /\ \E predicate \in ValueCallbacks :
         /\ args' = [callback |-> predicate]
         /\ LET r == filter(heap, a, predicate)
            IN /\ Returned("filter", r.h, r.v, r.threw)
               /\ calls' = r.calls
    /\ UNCHANGED <<a, b, path, x, dflt>>

\* The caller of map and filter.
SpecMapFilter == InitMapFilter /\ [][DataMap \/ DataFilter]_vars

\* What the callback of the last call gives for the member of a under key k.
Called(k) ==
    Call(args.callback, GetProp(heap0, a, k),
         IF IsArray(heap0, a) THEN IndexArg(IndexOf(k)) ELSE KeyArg(k))

\* C21: map and filter return a container of the kind of data; map's result
\* has the keys of data, each with fn(value, key); filter's result has the
\* entries whose pred(value, key) is truthy, values unchanged, in the original
\* order; data is not changed; a non-container is returned as it is and the
\* callback is not called.
C21_MapFilterKeepKind ==
    op \in {"map", "filter"} =>
        /\ ~threw
        /\ \A id \in 1..Len(heap0) : heap[id] = heap0[id]
        /\ IF ~IsRef(a) THEN ret = a /\ calls = 0 /\ heap = heap0
           ELSE LET keys == ObjectKeys(heap0, a)
                    kept == SelectSeq(keys, LAMBDA k : ~Falsy(Called(k)))
                IN /\ IsRef(ret)
                   /\ ret.id \notin 1..Len(heap0)
                   /\ heap[ret.id].kind = heap0[a.id].kind
                   /\ op = "map" =>
                        /\ ObjectKeys(heap, ret) = keys
                        /\ \A i \in 1..Len(keys) : GetProp(heap, ret, keys[i]) = Called(keys[i])
                   /\ op = "filter" =>
                        /\ Len(ObjectKeys(heap, ret)) = Len(kept)
                        /\ \A i \in 1..Len(kept) :
                             GetProp(heap, ret, ObjectKeys(heap, ret)[i]) = GetProp(heap0, a, kept[i])
                        /\ isObject(heap0, a) => ObjectKeys(heap, ret) = kept

\* C21 at work: filter drops one entry of a keyed mapping and keeps another.
C21_Witness ==
    /\ op = "filter"
    /\ isObject(heap0, a)
    /\ Len(ObjectKeys(heap0, a)) = 2
    /\ Len(ObjectKeys(heap, ret)) = 1

----------------------------------------------------------------------------
(* The kind of the error groupBy throws. *)

\* C23 as stated: groupBy given an input that is not a sequence fails with
\* an error of kind TypeError.
C23_GroupByThrowsTypeError ==
    op = "groupBy" /\ ~IsArray(heap0, a) => threw /\ ret.name = "TypeError"

\* C23: groupBy given an input that is not a sequence fails with a plain
\* Error, not a TypeError, whose message is 'Input must be an array'.
C23_GroupByThrowsError ==
    op = "groupBy" /\ ~IsArray(heap0, a) =>
        /\ threw
        /\ ret.name = "Error"
        /\ ret.s = "Input must be an array"

\* C23 at work: groupBy is handed null.
C23_Witness ==
    /\ op = "groupBy"
    /\ a = Null
    /\ threw
    /\ ret.name = "Error"

(***************************************************************************)
(* Utils.delete                                                            *)
(***************************************************************************)

\* The heap after delete o[k] on the heap object id: a name leaves the
\* entries, an index of an Array leaves a hole, an absent key changes nothing.
RemoveProp(h, id, k) ==
    LET c == h[id]
    IN IF c.kind = "arr" /\ IsIndexKey(k) /\ IndexOf(k) <= Len(c.items)
       THEN [h EXCEPT ![id].items[IndexOf(k)] = Hole]
       ELSE IF k \in EntKeys(c.ents)
       THEN [h EXCEPT ![id].ents =
                 SelectSeq(c.ents, LAMBDA e : e.k # k)]
       ELSE h

\* delete current[k] in strict mode: true when the property is gone
\* afterwards, which includes the property that never was there; the index
\* of a text is not configurable, and deleting it throws.
DeleteProp(h, current, k) ==
    IF IsRef(current)
    THEN [h |-> RemoveProp(h, current.id, k), v |-> True, threw |-> FALSE]
    ELSE IF current.t = "str" /\ HasOwn(h, current, k)
    THEN [h |-> h, v |-> TypeError, threw |-> TRUE]
    ELSE [h |-> h, v |-> True, threw |-> FALSE]

RECURSIVE DeleteLoop(_, _, _, _)
DeleteLoop(h, current, keys, i) ==
    IF i > Len(keys) - 1
    THEN DeleteProp(h, current, keys[Len(keys)])
    ELSE IF Falsy(GetProp(h, current, keys[i]))
    THEN [h |-> h, v |-> False, threw |-> FALSE]
    ELSE DeleteLoop(h, GetProp(h, current, keys[i]), keys, i + 1)

\* delete(obj, path): the heap afterwards and the value returned or thrown.
delete(h, obj, p) ==
    IF ~isObject(h, obj) THEN [h |-> h, v |-> False, threw |-> FALSE]
    ELSE DeleteLoop(h, obj, Split(p), 1)

\* r = delete(a, path)
Delete ==
    /\ op = "init"
    /\ LET r == delete(heap, a, path)
       IN Returned("delete", r.h, r.v, r.threw)
    /\ UNCHANGED <<a, b, path, x, dflt, args, calls>>

\* r = delete(a, path) has returned; r2 = has(a, path), with r kept in args
HasDeleted ==
    /\ op = "delete"
    /\ ~threw
    /\ args' = <<ret>>
    /\ Returned("delete;has", heap, Bool(has(heap, a, path)), FALSE)
    /\ UNCHANGED <<a, b, path, x, dflt, calls>>

NextDelete == Delete \/ HasDeleted

SpecDelete == InitPathOps /\ [][NextDelete]_vars

\* The paths that neither are path nor pass through it.
OtherPaths ==
    {q \in Paths :
        LET qs == Split(q)
        IN ~(Len(qs) >= Len(Segs) /\ SubSeq(qs, 1, Len(Segs)) = Segs)}

\* Every other path addresses after the call what it addressed before it:
\* the same object or primitive, and, unless the path leads to the deleted
\* property, with the same contents.
OthersKept ==
    \A q \in OtherPaths :
        LET qs == Split(q)
        IN /\ has(heap, a, q) = has(heap0, a, q)
           /\ get(heap, a, q, Undef) = get(heap0, a, q, Undef)
           /\ \/ Len(qs) <= Len(Segs) /\ SubSeq(Segs, 1, Len(qs)) = qs
              \/ Abs(heap, get(heap, a, q, Undef)) = Abs(heap0, get(heap0, a, q, Undef))

\* C30: delete(obj, path) returns true exactly when path addressed a value
\* of the keyed mapping obj and that value was removed, and false otherwise
\* (obj not a keyed mapping, an intermediate segment missing, the final key
\* absent); after a true, has(obj, path) is false and every other path
\* addresses what it addressed before.
C30_DeleteTrueIffRemoved ==
    /\ op = "delete" =>
          /\ ~threw
          /\ ret = Bool(has(heap0, a, path))
          /\ ret = True => ~has(heap, a, path) /\ OthersKept
    /\ op = "delete;has" /\ args[1] = True => ret = False

\* What the code does give: a true is followed by a false has and leaves the
\* other paths alone, and a path that has() finds is deleted with a true
\* unless its last step is the index of a text.
DeleteRemoves ==
    /\ op = "delete" /\ ~threw /\ ret = True => ~has(heap, a, path) /\ OthersKept
    /\ op = "delete" /\ ~threw /\ has(heap0, a, path) => ret = True
    /\ op = "delete;has" /\ args[1] = True => ret = False

\* delete of a key that was never there answers true.
DeleteOfAbsent ==
    /\ op = "delete" /\ ret = True /\ ~threw
    /\ isObject(heap0, a) /\ ~has(heap0, a, path)
    /\ Len(Segs) = 1

(***************************************************************************)
(* Timers.  The page runs one callback at a time; a timer set with         *)
(* setTimeout(cb, delay) runs once, not before delay milliseconds have     *)
(* passed, and among the timers that are due the one that was due first    *)
(* (the older one if both were due together) runs first.  timers keeps     *)
(* every timer ever set, so that an identity is never used twice.          *)
(***************************************************************************)

\* setTimeout(cb, delay) at time t: the timers afterwards; the identity
\* returned is TimerId(ts).
TimerId(ts) == Len(ts) + 1

setTimeout(ts, cb, delay, t) ==
    Append(ts, [due |-> t + (IF delay > 0 THEN delay ELSE 0),
                cb |-> cb, state |-> "pending"])

\* clearTimeout(id): a timer that has run or was cleared, or no timer
\* (undefined is written 0), is left alone.
clearTimeout(ts, id) ==
    IF id \in 1..Len(ts) /\ ts[id].state = "pending"
    THEN [ts EXCEPT ![id].state = "cleared"]
    ELSE ts

PendingTimers(ts) == {id \in 1..Len(ts) : ts[id].state = "pending"}

\* The timer that runs next, if one is due at time t.
DueTimers(ts, t) == {id \in PendingTimers(ts) : ts[id].due <= t}

NextTimer(ts, t) ==
    CHOOSE id \in DueTimers(ts, t) :
        \A other \in DueTimers(ts, t) :
            \/ ts[id].due < ts[other].due
            \/ ts[id].due = ts[other].due /\ id <= other

\* Time passes, to one of the given instants, while no timer is overdue by
\* more than late milliseconds.
Elapse(instants, late, maxTime) ==
    /\ \A id \in PendingTimers(timers) : now < timers[id].due + late
    /\ \E t \in instants :
         /\ t > now
         /\ t <= maxTime
         /\ \A id \in PendingTimers(timers) : t <= timers[id].due + late
         /\ now' = t

\* The instants at which a pending timer becomes due.
DueInstants == {timers[id].due : id \in PendingTimers(timers)}

(***************************************************************************)
(* Notify: toasts in the notification container                            *)
(***************************************************************************)

\* Toasts created, and timers set, in one behaviour.
MaxToasts == 2

MaxNotifyTimers == 5

\* The instant after which the clock of the Notify model stops.
NotifyMaxTime == 3600

\* duration = duration || 3000 (an absent duration is written 0)
DefaultDuration == 3000

\* The delay of the removal timer of removeNotification.
RemovalDelay == 300

\* The container element that initContainer creates once.
Div == [t |-> "element", s |-> "div"]

\* The toasts attached to the container, as querySelectorAll gives them.
Toasts(els) == {n \in 1..Len(els) : els[n].parentNode = "container"}

\* removeNotification(notification) at time t: the timers afterwards.
removeNotification(ts, els, n, t) ==
    setTimeout(IF els[n].timeoutId # 0 THEN clearTimeout(ts, els[n].timeoutId) ELSE ts,
               [f |-> "remove", el |-> n], RemovalDelay, t)

\* The callback of the removal timer: the element leaves its parent, if it
\* has one, and the count goes down, not below zero.
Removed(els, n) == [els EXCEPT ![n].parentNode = "none"]

Decremented(count) == IF count - 1 > 0 THEN count - 1 ELSE 0

\* The loop of removeAll over the toasts found.
RECURSIVE RemoveEach(_, _, _, _)
RemoveEach(ts, els, toasts, t) ==
    IF toasts = {} THEN ts
    ELSE LET n == CHOOSE m \in toasts : \A o \in toasts : m <= o
         IN RemoveEach(removeNotification(ts, els, n, t), els, toasts \ {n}, t)

\* Timers that calls and callbacks still to come may set: every pending
\* auto-dismiss timer sets one removal timer when it runs.
TimersOwed == Cardinality({id \in PendingTimers(timers) : timers[id].cb.f = "dismiss"})

NotifyDurations == {-1, 0, 100}

\* No call has been made yet.
InitTimed ==
    /\ heap = <<>> /\ a = Undef /\ b = Undef /\ path = <<>> /\ x = Undef
    /\ InitRest

\* Notify.notify(message, type, duration, position)
NotifyNotify ==
    /\ Len(elements) < MaxToasts
    /\ Len(timers) + TimersOwed + 2 <= MaxNotifyTimers
    /\ \E d \in NotifyDurations :
         LET duration == IF d = 0 THEN DefaultDuration ELSE d
             n == Len(elements) + 1
         IN /\ elements' = Append(elements,
                 [parentNode |-> "container",
                  timeoutId |-> IF duration > 0 THEN TimerId(timers) ELSE 0])
            /\ timers' = IF duration > 0
                         THEN setTimeout(timers, [f |-> "dismiss", el |-> n], duration, now)
                         ELSE timers
    /\ Notify' = [container |-> Div, activeCount |-> Notify.activeCount + 1]
    /\ UNCHANGED <<now, tasks, log>>
    /\ UNCHANGED dataVars

\* A click on the close button of a toast that is on the page.
ClickClose ==
    /\ Len(timers) + TimersOwed + 1 <= MaxNotifyTimers
    /\ \E n \in Toasts(elements) :
         timers' = removeNotification(timers, elements, n, now)
    /\ UNCHANGED <<now, tasks, log, elements, Notify>>
    /\ UNCHANGED dataVars

\* Notify.removeAll()
RemoveAll ==
    /\ Len(timers) + TimersOwed + Cardinality(Toasts(elements)) <= MaxNotifyTimers
    /\ timers' = IF Notify.container = Null THEN timers
                 ELSE RemoveEach(timers, elements, Toasts(elements), now)
    /\ UNCHANGED <<now, tasks, log, elements, Notify>>
    /\ UNCHANGED dataVars

\* The timer that is due runs: the auto-dismiss of a toast, or the removal
\* that removeNotification has set.
NotifyTimer ==
    /\ DueTimers(timers, now) # {}
    /\ LET id == NextTimer(timers, now)
           cb == timers[id].cb
           ran == [timers EXCEPT ![id].state = "ran"]
       IN IF cb.f = "dismiss"
          THEN /\ timers' = removeNotification(ran, elements, cb.el, now)
               /\ UNCHANGED <<elements, Notify>>
          ELSE /\ timers' = ran
               /\ elements' = IF elements[cb.el].parentNode # "none"
                              THEN Removed(elements, cb.el) ELSE elements
               /\ Notify' = [Notify EXCEPT !.activeCount = Decremented(@)]
    /\ UNCHANGED <<now, tasks, log>>
    /\ UNCHANGED dataVars

\* Time passes until a timer is due.
NotifyTick ==
    /\ Elapse(DueInstants, 0, NotifyMaxTime)
    /\ UNCHANGED <<timers, tasks, log, elements, Notify>>
    /\ UNCHANGED dataVars

NextNotify == NotifyNotify \/ ClickClose \/ RemoveAll \/ NotifyTimer \/ NotifyTick

SpecNotify == InitTimed /\ [][NextNotify]_vars

\* C27: after any interleaving of notify calls, clicks on close buttons
\* (also repeated on one toast), auto-dismiss timeouts, removeAll calls and
\* removal timers, activeCount is the number of toasts attached to the
\* container.
C27_ActiveCountIsAttached ==
    Notify.activeCount = Cardinality(Toasts(elements))

\* With at most one removal asked for each toast at a time the count is right.
RemovalsAsked(n) ==
    Cardinality({id \in 1..Len(timers) :
                    timers[id].cb.f = "remove" /\ timers[id].cb.el = n})

CountOfSingleRemovals ==
    (\A n \in 1..Len(elements) : RemovalsAsked(n) <= 1) => C27_ActiveCountIsAttached

\* One toast was closed twice and its second removal timer took the
\* other toast's count.
ClosedTwice ==
    /\ Notify.activeCount = 0
    /\ Toasts(elements) # {}
    /\ \E n \in 1..Len(elements) : RemovalsAsked(n) = 2

(***************************************************************************)
(* Utils.debounce                                                          *)
(*                                                                         *)
(* tasks[i] is the closure of the i-th debounced function: its delay and   *)
(* its timeoutId (undefined is written 0).  log records each call of a     *)
(* debounced function and each call of fn; the this-value and the          *)
(* arguments object of a call are new objects, named by the position of    *)
(* the call in log.                                                        *)
(***************************************************************************)

\* Debounced functions made, calls of them, and the instant after which the
\* clock stops, in one behaviour.
MaxDebounced == 2

MaxDebouncedCalls == 3

DebounceMaxTime == 3

\* How late a timer callback may run, in milliseconds.
MaxLate == 1

DebounceDelays == {1, 2}

\* The body of the debounced function without its clearTimeout.
debouncedKeepTimer(ts, closure, cb, t) ==
    setTimeout(ts, cb, closure.delay, t)

\* The body of the debounced function at time t: the timers afterwards.
debounced(ts, closure, cb, t) ==
    setTimeout(clearTimeout(ts, closure.timeoutId), cb, closure.delay, t)

\* d = Utils.debounce(fn, delay)
Debounce ==
    /\ Len(tasks) < MaxDebounced
    /\ \E delay \in DebounceDelays :
         tasks' = Append(tasks, [f |-> "debounce", delay |-> delay, timeoutId |-> 0])
    /\ UNCHANGED <<now, timers, log, elements, Notify>>
    /\ UNCHANGED dataVars

\* d.apply(context, args), for one of the debounced functions
Debounced ==
    /\ Cardinality({j \in 1..Len(log) : log[j].e = "d"}) < MaxDebouncedCalls
    /\ \E i \in 1..Len(tasks) :
         LET call == Len(log) + 1
             cb == [f |-> "debounced", task |-> i, context |-> call, args |-> call]
             ts == debounced(timers, tasks[i], cb, now)
         IN /\ timers' = ts
            /\ tasks' = [tasks EXCEPT ![i].timeoutId = Len(ts)]
            /\ log' = Append(log, [e |-> "d", task |-> i, at |-> now,
                                   context |-> call, args |-> call])
    /\ UNCHANGED <<now, elements, Notify>>
    /\ UNCHANGED dataVars

\* The timer callback of a debounced function: fn.apply(context, args)
DebounceTimer ==
    /\ DueTimers(timers, now) # {}
    /\ LET id == NextTimer(timers, now)
           cb == timers[id].cb
       IN /\ timers' = [timers EXCEPT ![id].state = "ran"]
          /\ log' = Append(log, [e |-> "fn", task |-> cb.task, at |-> now,
                                 context |-> cb.context, args |-> cb.args])
    /\ UNCHANGED <<now, tasks, elements, Notify>>
    /\ UNCHANGED dataVars

\* A millisecond passes.
DebounceTick ==
    /\ Elapse({now + 1}, MaxLate, DebounceMaxTime)
    /\ UNCHANGED <<timers, tasks, log, elements, Notify>>
    /\ UNCHANGED dataVars

NextDebounce == Debounce \/ Debounced \/ DebounceTimer \/ DebounceTick

SpecDebounce == InitTimed /\ [][NextDebounce]_vars

\* The calls of the debounced function i, and the calls of fn, in log.
CallsOf(i) == {j \in 1..Len(log) : log[j].e = "d" /\ log[j].task = i}

FnCalls == {j \in 1..Len(log) : log[j].e = "fn"}

LastCallOf(i) == CHOOSE j \in CallsOf(i) : \A k \in CallsOf(i) : k <= j

TimersOf(i) == {id \in 1..Len(timers) : timers[id].cb.task = i}

\* C29: fn is called only when delay ms have passed since the most recent
\* call of d with no call of d in between, once for such a quiet period and
\* with the this-value and the arguments of that call; a debounced function
\* has at most one timer pending; two debounced functions neither cancel
\* nor delay each other.
C29_Debounce ==
    /\ \A j \in FnCalls :
         LET c == log[j].context
             i == log[c].task
         IN /\ log[c].e = "d" /\ c < j
            /\ log[j].args = log[c].args
            /\ \A k \in CallsOf(i) : ~(c < k /\ k < j)
            /\ log[j].at >= log[c].at + tasks[i].delay
            /\ \A k \in FnCalls : log[k].context = c => k = j
    /\ \A i \in 1..Len(tasks) :
         /\ Cardinality(TimersOf(i) \cap PendingTimers(timers)) <= 1
         /\ CallsOf(i) # {} =>
              LET c == LastCallOf(i)
                  own == {id \in TimersOf(i) : timers[id].cb.context = c}
              IN /\ Cardinality(own) = 1
                 /\ \A id \in own :
                      /\ timers[id].due = log[c].at + tasks[i].delay
                      /\ \/ timers[id].state = "pending" /\ now <= timers[id].due + MaxLate
                         \/ /\ timers[id].state = "ran"
                            /\ \E j \in FnCalls : log[j].context = c

\* Two debounced functions, each called, the first twice with a call inside
\* its delay; fn has run for the last call of each.
C29_Witness ==
    /\ Len(tasks) = 2
    /\ Cardinality(CallsOf(1)) = 2
    /\ CallsOf(2) # {}
    /\ \E id \in TimersOf(1) : timers[id].state = "cleared"
    /\ \A i \in {1, 2} : \E j \in FnCalls : log[j].context = LastCallOf(i)

(***************************************************************************)
(* Utils.sleep, Utils.retry, Utils.waitFor                                 *)
(*                                                                         *)
(* tasks[i] is the i-th invocation: the variables of its closure (retries, *)
(* delay, timeout, interval, startTime), its promise (state, value, and    *)
(* settles, the number of times resolve or reject was called on it), the   *)
(* reaction of Promise.resolve(fn()) that waits in the microtask queue,    *)
(* and calls, the calls it made to the supplied function with the instant  *)
(* and the outcome of each.  An absent numeric argument is written 0: the  *)
(* code treats both alike (x || dflt).  The n-th call of fn returns the    *)
(* value n, or a promise rejected with the error n, or throws the error n. *)
(***************************************************************************)

\* Invocations in one behaviour, and the instant after which the clock stops.
MaxTasks == 2

AsyncMaxTime == 7600

\* The last instant at which an invocation is started.
MaxStart == 2

\* Calls of the supplied functions that the invocations of one behaviour
\* can make together.
MaxFnCalls == 6

\* retries = retries || 3; delay = delay || 1000
DefaultRetries == 3

DefaultDelay == 1000

\* timeout = timeout || 5000; interval = interval || 100
DefaultTimeout == 5000

DefaultInterval == 100

\* v || d for a number v
OrDefault(v, d) == IF v = 0 THEN d ELSE v

NoValue == [k |-> "none", n |-> 0]

ValueOf(n) == [k |-> "value", n |-> n]

ErrorOf(n) == [k |-> "error", n |-> n]

TrueValue == [k |-> "true", n |-> 0]

UndefinedValue == [k |-> "undefined", n |-> 0]

\* new Error('Timeout waiting for condition')
TimeoutError == [k |-> "Timeout waiting for condition", n |-> 0]

\* The invocation as it starts: a pending promise and the closure variables.
NewTask(f, given, retries, delay, timeout, interval, t) ==
    [f |-> f, given |-> given, state |-> "pending", value |-> NoValue, settles |-> 0,
     retries |-> retries, delay |-> delay, timeout |-> timeout, interval |-> interval,
     startTime |-> t, reaction |-> "none", calls |-> <<>>, uncaught |-> FALSE]

\* resolve(v) and reject(e) of a promise: only the first of them settles it.
resolve(task, v) ==
    IF task.state = "pending"
    THEN [task EXCEPT !.state = "resolved", !.value = v, !.settles = @ + 1]
    ELSE [task EXCEPT !.settles = @ + 1]

reject(task, e) ==
    IF task.state = "pending"
    THEN [task EXCEPT !.state = "rejected", !.value = e, !.settles = @ + 1]
    ELSE [task EXCEPT !.settles = @ + 1]

\* All invocations working on the closure of the first one (not the code).
ClosureOfFirst(ts, i) == ts[1]

\* The closure a callback of invocation i works on.
Closure(ts, i) == ts[i]

\* A throw inside the executor of new Promise rejects the promise; a throw
\* inside a timer callback is an uncaught error and nothing else happens.
Thrown(task, e, inExecutor) ==
    IF inExecutor THEN reject(task, e) ELSE [task EXCEPT !.uncaught = TRUE]

\* The call of the supplied function enters the history of the invocation.
Recorded(task, out, t) == [task EXCEPT !.calls = Append(@, [at |-> t, out |-> out])]

\* attempt() of retry at time t, fn() ending with out: Promise.resolve(fn())
\* leaves a reaction for the microtask queue, a throw ends the callback.
attempt(task, out, t, inExecutor) ==
    LET called == Recorded(task, out, t)
    IN IF out = "throw" THEN Thrown(called, ErrorOf(Len(called.calls)), inExecutor)
       ELSE [called EXCEPT !.reaction = out]

\* The reaction of retry: .then(resolve) for a value, the .catch handler for
\* a rejection.  The invocation and the timers afterwards.
RetryReaction(task, i, ts, t) ==
    LET n == Len(task.calls)
        done == [task EXCEPT !.reaction = "none"]
    IN IF task.reaction = "value"
       THEN [task |-> resolve(done, ValueOf(n)), ts |-> ts]
       ELSE IF task.retries <= 0
       THEN [task |-> reject(done, ErrorOf(n)), ts |-> ts]
       ELSE [task |-> [done EXCEPT !.retries = @ - 1],
             ts |-> setTimeout(ts, [f |-> "attempt", task |-> i], task.delay, t)]

\* check() rejecting already when exactly timeout ms have passed (not the code).
checkAtTimeout(task, i, ts, out, t, inExecutor) ==
    LET called == Recorded(task, out, t)
    IN IF out = "throw"
       THEN [task |-> Thrown(called, ErrorOf(Len(called.calls)), inExecutor), ts |-> ts]
       ELSE IF out = "truthy"
       THEN [task |-> resolve(called, TrueValue), ts |-> ts]
       ELSE IF t - task.startTime >= task.timeout
       THEN [task |-> reject(called, TimeoutError), ts |-> ts]
       ELSE [task |-> called,
             ts |-> setTimeout(ts, [f |-> "check", task |-> i], task.interval, t)]

\* check() of waitFor at time t, conditionFn() ending with out.
check(task, i, ts, out, t, inExecutor) ==
    LET called == Recorded(task, out, t)
    IN IF out = "throw"
       THEN [task |-> Thrown(called, ErrorOf(Len(called.calls)), inExecutor), ts |-> ts]
       ELSE IF out = "truthy"
       THEN [task |-> resolve(called, TrueValue), ts |-> ts]
       ELSE IF t - task.startTime > task.timeout
       THEN [task |-> reject(called, TimeoutError), ts |-> ts]
       ELSE [task |-> called,
             ts |-> setTimeout(ts, [f |-> "check", task |-> i], task.interval, t)]

FnOutcomes == {"value", "reject", "throw"}

ConditionOutcomes == {"truthy", "falsy", "throw"}

SleepArgs == {2}

\* retries and delay
RetryArgs == {<<0, 2>>, <<1, 0>>}

\* timeout and interval
WaitForArgs == {<<2, 2>>, <<2, 0>>, <<0, 2500>>}

\* The most calls of the supplied function an invocation can make.
MostCalls(task) ==
    IF task.f = "retry" THEN task.retries + 1
    ELSE IF task.f = "waitFor" THEN (task.timeout \div task.interval) + 2
    ELSE 0

RECURSIVE MostCallsOfAll(_)
MostCallsOfAll(ts) ==
    IF ts = <<>> THEN 0 ELSE MostCalls(Head(ts)) + MostCallsOfAll(Tail(ts))

\* An invocation is started in the first MaxStart ms, and only if the clock
\* does not stop before its last timer can run and the calls of supplied
\* functions stay within the bound.
InTime(task, duration) ==
    /\ Len(tasks) < MaxTasks
    /\ now <= MaxStart
    /\ now + duration <= AsyncMaxTime
    /\ MostCallsOfAll(tasks) + MostCalls(task) <= MaxFnCalls

\* p = Utils.sleep(ms)
Sleep ==
    /\ \E ms \in SleepArgs :
         LET task == NewTask("sleep", [ms |-> ms, retries |-> 0, delay |-> 0,
                                       timeout |-> 0, interval |-> 0], 0, 0, 0, 0, now)
         IN
         /\ InTime(task, ms + MaxLate)
         /\ tasks' = Append(tasks, task)
         /\ timers' = setTimeout(timers, [f |-> "resolve", task |-> Len(tasks) + 1], ms, now)
    /\ UNCHANGED <<now, log, elements, Notify>>
    /\ UNCHANGED dataVars

\* p = Utils.retry(fn, retries, delay): the executor runs the first attempt
Retry ==
    /\ \E rd \in RetryArgs, out \in FnOutcomes :
         LET retries == OrDefault(rd[1], DefaultRetries)
             delay == OrDefault(rd[2], DefaultDelay)
             task == NewTask("retry", [ms |-> 0, retries |-> rd[1], delay |-> rd[2],
                                       timeout |-> 0, interval |-> 0],
                             retries, delay, 0, 0, now)
         IN /\ InTime(task, retries * (delay + MaxLate))
            /\ tasks' = Append(tasks, attempt(task, out, now, TRUE))
    /\ UNCHANGED <<now, timers, log, elements, Notify>>
    /\ UNCHANGED dataVars

\* p = Utils.waitFor(conditionFn, timeout, interval): the executor takes
\* startTime and runs the first check
WaitFor ==
    /\ \E ti \in WaitForArgs, out \in ConditionOutcomes :
         LET timeout == OrDefault(ti[1], DefaultTimeout)
             interval == OrDefault(ti[2], DefaultInterval)
             i == Len(tasks) + 1
             task == NewTask("waitFor", [ms |-> 0, retries |-> 0, delay |-> 0,
                                         timeout |-> ti[1], interval |-> ti[2]],
                             0, 0, timeout, interval, now)
             r == check(task, i, timers, out, now, TRUE)
         IN /\ InTime(task, timeout + interval + MaxLate)
            /\ tasks' = Append(tasks, r.task)
            /\ timers' = r.ts
    /\ UNCHANGED <<now, log, elements, Notify>>
    /\ UNCHANGED dataVars

\* The invocations whose reaction waits in the microtask queue.
Reacting == {i \in 1..Len(tasks) : tasks[i].reaction # "none"}

\* A microtask runs: the reaction to the promise of an attempt.
Reaction ==
    /\ \E i \in Reacting :
         LET r == RetryReaction(Closure(tasks, i), i, timers, now)
         IN /\ tasks' = [tasks EXCEPT ![i] = r.task]
            /\ timers' = r.ts
    /\ UNCHANGED <<now, log, elements, Notify>>
    /\ UNCHANGED dataVars

\* The microtask queue is empty and the timer that is due runs its
\* callback: resolve of sleep, attempt of retry, check of waitFor.
AsyncTimer ==
    /\ Reacting = {}
    /\ DueTimers(timers, now) # {}
    /\ LET id == NextTimer(timers, now)
           cb == timers[id].cb
           i == cb.task
           ran == [timers EXCEPT ![id].state = "ran"]
       IN CASE cb.f = "resolve" ->
                 /\ tasks' = [tasks EXCEPT ![i] = resolve(Closure(tasks, i), UndefinedValue)]
                 /\ timers' = ran
            [] cb.f = "attempt" ->
                 /\ \E out \in FnOutcomes :
                      tasks' = [tasks EXCEPT ![i] = attempt(Closure(tasks, i), out, now, FALSE)]
                 /\ timers' = ran
            [] cb.f = "check" ->
                 \E out \in ConditionOutcomes :
                      LET r == check(Closure(tasks, i), i, ran, out, now, FALSE)
                      IN /\ tasks' = [tasks EXCEPT ![i] = r.task]
                         /\ timers' = r.ts
    /\ UNCHANGED <<now, log, elements, Notify>>
    /\ UNCHANGED dataVars

\* Time passes until a timer is due, or MaxLate ms longer.
AsyncTick ==
    /\ Reacting = {}
    /\ Elapse({d + l : d \in DueInstants, l \in {0, MaxLate}}, MaxLate, AsyncMaxTime)
    /\ UNCHANGED <<timers, tasks, log, elements, Notify>>
    /\ UNCHANGED dataVars

NextAsync == Sleep \/ Retry \/ WaitFor \/ Reaction \/ AsyncTimer \/ AsyncTick

SpecAsync == InitTimed /\ [][NextAsync]_vars

\* Timers keep firing: a callback that can run does run, and time passes.
SpecAsyncFair ==
    /\ SpecAsync
    /\ WF_vars(Reaction)
    /\ WF_vars(AsyncTimer)
    /\ WF_vars(AsyncTick)

(***************************************************************************)
(* What one invocation does when it runs alone, computed from the outcomes *)
(* and instants of the calls it made to the supplied function.             *)
(***************************************************************************)

\* The promise and the closure after the calls so far, none of them waiting
\* for its reaction.  over: nothing more is scheduled.
Outcome(state, value, retries, uncaught) ==
    [state |-> state, value |-> value, retries |-> retries, uncaught |-> uncaught,
     over |-> state # "pending" \/ uncaught]

\* A call was made after the invocation was over.
Overrun == [state |-> "overrun", value |-> NoValue, retries |-> 0,
            uncaught |-> FALSE, over |-> TRUE]

RECURSIVE RetryAlone(_, _, _)
RetryAlone(cs, k, retries) ==
    IF k > Len(cs) THEN Outcome("pending", NoValue, retries, FALSE)
    ELSE IF cs[k].out = "reject" /\ retries > 0
    THEN RetryAlone(cs, k + 1, retries - 1)
    ELSE IF k < Len(cs) THEN Overrun
    ELSE IF cs[k].out = "value" THEN Outcome("resolved", ValueOf(k), retries, FALSE)
    ELSE IF cs[k].out = "reject" THEN Outcome("rejected", ErrorOf(k), retries, FALSE)
    ELSE IF k = 1 THEN Outcome("rejected", ErrorOf(1), retries, FALSE)
    ELSE Outcome("pending", NoValue, retries, TRUE)

RECURSIVE WaitForAlone(_, _, _, _)
WaitForAlone(cs, k, startTime, timeout) ==
    IF k > Len(cs) THEN Outcome("pending", NoValue, 0, FALSE)
    ELSE IF cs[k].out = "falsy" /\ cs[k].at - startTime <= timeout
    THEN WaitForAlone(cs, k + 1, startTime, timeout)
    ELSE IF k < Len(cs) THEN Overrun
    ELSE IF cs[k].out = "truthy" THEN Outcome("resolved", TrueValue, 0, FALSE)
    ELSE IF cs[k].out = "falsy" THEN Outcome("rejected", TimeoutError, 0, FALSE)
    ELSE IF k = 1 THEN Outcome("rejected", ErrorOf(1), 0, FALSE)
    ELSE Outcome("pending", NoValue, 0, TRUE)

\* The calls whose reaction has run.
Reacted(task) ==
    IF task.reaction = "none" THEN task.calls
    ELSE SubSeq(task.calls, 1, Len(task.calls) - 1)

Alone(task) ==
    IF task.f = "retry"
    THEN RetryAlone(Reacted(task), 1, OrDefault(task.given.retries, DefaultRetries))
    ELSE WaitForAlone(task.calls, 1, task.startTime,
                      OrDefault(task.given.timeout, DefaultTimeout))

\* The timers of invocation i, and the delay of its timers.
TimersOfTask(i) == {id \in 1..Len(timers) : timers[id].cb.task = i}

DelayOf(task) ==
    IF task.f = "sleep" THEN task.given.ms
    ELSE IF task.f = "retry" THEN OrDefault(task.given.delay, DefaultDelay)
    ELSE OrDefault(task.given.interval, DefaultInterval)

\* The instant at which the invocation last set a timer.
LastSet(task) ==
    IF task.calls = <<>> THEN task.startTime ELSE task.calls[Len(task.calls)].at

\* C22: invocations of sleep, retry and waitFor that are in flight together
\* share no state: each has its own timer, retries counter and start time,
\* makes the calls and settles as it would alone.
C22_Independent ==
    \A i \in 1..Len(tasks) :
        LET task == tasks[i]
            mine == TimersOfTask(i) \cap PendingTimers(timers)
        IN /\ \A id \in TimersOfTask(i) : timers[id].state # "cleared"
           /\ \A id \in mine : timers[id].due = LastSet(task) + DelayOf(task)
           /\ IF task.f = "sleep"
              THEN /\ Cardinality(TimersOfTask(i)) = 1
                   /\ task.calls = <<>>
                   /\ IF mine = {} THEN task.state = "resolved" /\ task.settles = 1
                      ELSE task.state = "pending" /\ task.settles = 0
              ELSE LET alone == Alone(task)
                   IN /\ task.state = alone.state
                      /\ task.value = alone.value
                      /\ task.uncaught = alone.uncaught
                      /\ task.f = "retry" => task.retries = alone.retries
                      /\ task.settles = (IF alone.state = "pending" THEN 0 ELSE 1)
                      /\ Cardinality(mine) =
                            (IF alone.over \/ task.reaction # "none" THEN 0 ELSE 1)

\* Two invocations that made calls in turn, both over.
C22_Witness ==
    /\ Len(tasks) = 2
    /\ tasks[1].f = "retry" /\ tasks[2].f = "waitFor"
    /\ tasks[1].state = "rejected" /\ tasks[2].state = "rejected"
    /\ Len(tasks[1].calls) = 4 /\ Len(tasks[2].calls) = 2
    /\ tasks[2].calls[1].at > tasks[1].calls[1].at
    /\ tasks[2].calls[2].at > tasks[1].calls[4].at

\* The invocations of one operation, and the pending timers of one of them.
TasksOf(f) == {i \in 1..Len(tasks) : tasks[i].f = f}

PendingOf(i) == TimersOfTask(i) \cap PendingTimers(timers)

\* Attempts of a retry are made one after the other: each but the last has
\* failed, and the next comes no sooner than the delay after it.
Sequential(task) ==
    \A k \in 1..(Len(task.calls) - 1) :
        /\ task.calls[k].out = "reject"
        /\ task.calls[k + 1].at >= task.calls[k].at + DelayOf(task)

\* C24: retry(fn, retries, delay) is a linear retry: the attempts are
\* sequential, fn is called at most retries + 1 times for every
\* retries >= 0, the promise resolves with the value of the first attempt
\* that succeeds, with no attempt after it, and rejects with the error of
\* the last attempt once the retries are used up.
C24_RetryLinear ==
    \A i \in TasksOf("retry") :
        LET task == tasks[i]
            n == Len(task.calls)
        IN /\ Sequential(task)
           /\ n <= task.given.retries + 1
           /\ task.state = "resolved" =>
                 /\ task.calls[n].out = "value" /\ task.value = ValueOf(n)
                 /\ PendingOf(i) = {}
           /\ task.state = "rejected" =>
                 /\ task.value = ErrorOf(n)
                 /\ n = task.given.retries + 1
                 /\ PendingOf(i) = {}

\* What the code gives: the same with retries || 3 in the place of retries,
\* and a rejection at once when the first attempt throws.
RetryLinearWithDefault ==
    \A i \in TasksOf("retry") :
        LET task == tasks[i]
            n == Len(task.calls)
            retries == OrDefault(task.given.retries, DefaultRetries)
        IN /\ Sequential(task)
           /\ n <= retries + 1
           /\ task.state = "resolved" =>
                 /\ task.calls[n].out = "value" /\ task.value = ValueOf(n)
                 /\ PendingOf(i) = {}
           /\ task.state = "rejected" =>
                 /\ task.value = ErrorOf(n)
                 /\ n = retries + 1 \/ (n = 1 /\ task.calls[1].out = "throw")
                 /\ PendingOf(i) = {}

\* retry(fn, 0, delay) has called fn four times.
RetriedWithZero ==
    \E i \in TasksOf("retry") :
        /\ tasks[i].given.retries = 0
        /\ Len(tasks[i].calls) = 4
        /\ tasks[i].state = "rejected"

\* C25: every promise of sleep, retry and waitFor settles in the end, and
\* once, as long as timers keep firing, whatever the supplied function does:
\* return a value, return a rejected promise, or throw, in its first or in a
\* later attempt or poll.
C25_SettlesOnce ==
    /\ [](\A i \in 1..Len(tasks) : tasks[i].settles <= 1)
    /\ \A i \in 1..MaxTasks :
         (Len(tasks) >= i) ~> (Len(tasks) >= i /\ tasks[i].state # "pending")

\* What the code gives: the promise settles once, or the supplied function
\* has thrown inside a timer callback and the promise stays pending.
SettlesOrUncaught ==
    /\ [](\A i \in 1..Len(tasks) : tasks[i].settles <= 1)
    /\ \A i \in 1..MaxTasks :
         (Len(tasks) >= i) ~>
             (Len(tasks) >= i /\ (tasks[i].state # "pending" \/ tasks[i].uncaught))

\* An invocation that stays pending for ever.
Abandoned ==
    \E i \in 1..Len(tasks) :
        /\ tasks[i].uncaught
        /\ tasks[i].state = "pending"
        /\ PendingOf(i) = {}

\* The polls of a waitFor: the first at once, each later one an interval
\* (and no more than the lateness of a timer) after a falsy one.
Polls(task, interval) ==
    /\ task.calls # <<>>
    /\ task.calls[1].at = task.startTime
    /\ \A k \in 1..(Len(task.calls) - 1) :
         /\ task.calls[k].out = "falsy"
         /\ task.calls[k + 1].at >= task.calls[k].at + interval
         /\ task.calls[k + 1].at <= task.calls[k].at + interval + MaxLate

\* The promise of a waitFor against its polls, for a given timeout.
PollsSettle(task, i, timeout) ==
    LET n == Len(task.calls)
        last == task.calls[n]
    IN /\ \A k \in 1..(n - 1) : task.calls[k].at - task.startTime <= timeout
       /\ last.out = "truthy" => task.state = "resolved" /\ task.value = TrueValue
       /\ last.out = "falsy" /\ last.at - task.startTime > timeout =>
             task.state = "rejected" /\ task.value = TimeoutError
       /\ task.state = "resolved" => last.out = "truthy"
       /\ task.state = "rejected" /\ task.value = TimeoutError =>
             last.out = "falsy" /\ last.at - task.startTime > timeout
       /\ task.state # "pending" => PendingOf(i) = {}

WaitForPollsAsPassed ==
    \A i \in TasksOf("waitFor") :
        /\ Polls(tasks[i], tasks[i].given.interval)
        /\ PollsSettle(tasks[i], i, tasks[i].given.timeout)

\* waitFor(conditionFn, 0, interval) polls on after a falsy poll later than
\* the start.
PolledPastZero ==
    \E i \in TasksOf("waitFor") :
        /\ tasks[i].given.timeout = 0
        /\ Len(tasks[i].calls) >= 3

(***************************************************************************)
(* Anim: animations with a completion callback                             *)
(*                                                                         *)
(* tasks[i] is the i-th call of an Anim operation: whether getElement      *)
(* found the element (found), whether the element has the Web Animations   *)
(* method animate (web), the variables times and count and the             *)
(* singleDuration of bounce, shake and pulse, the animation of the cycle   *)
(* that is running (step), the animations that have finished (steps), the  *)
(* calls of the completion callback (callbacks), and whether a TypeError   *)
(* left the operation or one of its callbacks (threw).  The end of an      *)
(* animation, whether a timer or the finish event, is a timer of the       *)
(* model; timers count whole milliseconds.                                 *)
(***************************************************************************)

\* Calls of Anim operations in one behaviour, and the instant after which
\* the clock stops.
MaxAnimCalls == 2

AnimMaxTime == 1100

\* duration = duration || 300 in animate and in the operations built on it
DefaultAnimDuration == 300

DirectOps == {"animate", "rotate", "translate", "scale"}

GuardedOps == {"fadeIn", "fadeOut", "slideDown", "slideUp", "slideToggle",
               "zoomIn", "zoomOut"}

CycleOps == {"bounce", "shake", "pulse"}

\* The animations of one cycle, the default of times and of duration.
CycleSteps(f) == IF f = "shake" THEN 4 ELSE 2

DefaultTimes(f) == IF f = "pulse" THEN 2 ELSE 3

DefaultCycleDuration(f) == IF f = "pulse" THEN 1000 ELSE 500

\* The easing that the animation number step (from 0) of a cycle passes to animate.
CycleEasing(f, step) ==
    IF f = "bounce" THEN (IF step = 0 THEN "easeOutQuad" ELSE "easeInQuad")
    ELSE IF f = "shake" THEN "linear"
    ELSE "ease"

\* The easing names that Element.animate accepts; for any other text it
\* throws a TypeError.
ValidEasings == {"linear", "ease", "ease-in", "ease-out", "ease-in-out"}

NewAnim(f, found, web, times, single) ==
    [f |-> f, found |-> found, web |-> web, times |-> times, single |-> single,
     count |-> 0, step |-> 0, steps |-> 0, callbacks |-> 0, threw |-> FALSE]

\* if (typeof callback === 'function') callback(), for a callback that was given
callback(task) == [task EXCEPT !.callbacks = @ + 1]

\* Anim.animate(element, properties, duration, easing, callback) at time t:
\* the call and the timers afterwards.
animate(task, i, ts, easing, duration, t) ==
    LET finish == setTimeout(ts, [f |-> "finished", task |-> i],
                             OrDefault(duration, DefaultAnimDuration), t)
    IN IF ~task.found THEN [task |-> task, ts |-> ts]
       ELSE IF easing = "function" THEN [task |-> task, ts |-> finish]
       ELSE IF task.web
       THEN IF easing \in ValidEasings THEN [task |-> task, ts |-> finish]
            ELSE [task |-> [task EXCEPT !.threw = TRUE], ts |-> ts]
       ELSE [task |-> task, ts |-> finish]

\* doBounce(), doShake(), doPulse()
DoCycle(task, i, ts, t) ==
    IF task.count < task.times
    THEN animate(task, i, ts, CycleEasing(task.f, 0), task.single, t)
    ELSE [task |-> callback(task), ts |-> ts]

\* The function that runs when an animation has finished: the next
\* animation of the cycle, the next cycle, or the completion callback.
Finished(task, i, ts, t) ==
    LET done == [task EXCEPT !.steps = @ + 1]
    IN IF task.f \in CycleOps
       THEN IF task.step + 1 < CycleSteps(task.f)
            THEN animate([done EXCEPT !.step = @ + 1], i, ts,
                         CycleEasing(task.f, task.step + 1), task.single, t)
            ELSE DoCycle([done EXCEPT !.step = 0, !.count = @ + 1], i, ts, t)
       ELSE [task |-> callback(done), ts |-> ts]

AnimDurations == {0, 24}

AnimTimes == {0, 1, 2}

\* Anim.animate and rotate, translate, scale, which pass their element on
AnimDirect ==
    /\ Len(tasks) < MaxAnimCalls
    /\ \E f \in DirectOps, found \in BOOLEAN, web \in BOOLEAN, d \in AnimDurations,
          easing \in {"ease", "function"} :
         LET i == Len(tasks) + 1
             r == animate(NewAnim(f, found, web, 0, 0), i, timers,
                          IF f = "animate" THEN easing ELSE "ease",
                          IF f = "animate" THEN d ELSE OrDefault(d, DefaultAnimDuration), now)
         IN /\ tasks' = Append(tasks, r.task)
            /\ timers' = r.ts
    /\ UNCHANGED <<now, log, elements, Notify>>
    /\ UNCHANGED dataVars

\* fadeIn, fadeOut, slideDown, slideUp, slideToggle, zoomIn, zoomOut: one
\* animation, unless the element is missing or fadeIn finds it opaque
AnimGuarded ==
    /\ Len(tasks) < MaxAnimCalls
    /\ \E f \in GuardedOps, found \in BOOLEAN, web \in BOOLEAN, d \in AnimDurations,
          opaque \in BOOLEAN :
         LET i == Len(tasks) + 1
             task == NewAnim(f, found, web, 0, 0)
             r == IF ~found THEN [task |-> task, ts |-> timers]
                  ELSE IF f = "fadeIn" /\ opaque
                  THEN [task |-> callback(task), ts |-> timers]
                  ELSE animate(task, i, timers, "ease",
                               OrDefault(d, DefaultAnimDuration), now)
         IN /\ tasks' = Append(tasks, r.task)
            /\ timers' = r.ts
    /\ UNCHANGED <<now, log, elements, Notify>>
    /\ UNCHANGED dataVars

\* bounce, shake, pulse: times cycles of animations, one after the other
AnimCycle ==
    /\ Len(tasks) < MaxAnimCalls
    /\ \E f \in CycleOps, found \in BOOLEAN, web \in BOOLEAN, d \in AnimDurations,
          n \in AnimTimes :
         LET i == Len(tasks) + 1
             times == OrDefault(n, DefaultTimes(f))
             duration == OrDefault(d, DefaultCycleDuration(f))
             task == NewAnim(f, found, web, times, duration \div (times * CycleSteps(f)))
             r == IF ~found THEN [task |-> task, ts |-> timers]
                  ELSE DoCycle(task, i, timers, now)
         IN /\ tasks' = Append(tasks, r.task)
            /\ timers' = r.ts
    /\ UNCHANGED <<now, log, elements, Notify>>
    /\ UNCHANGED dataVars

\* Anim.animateCSS: a style rule and a timer of its own
AnimateCSS ==
    /\ Len(tasks) < MaxAnimCalls
    /\ \E found \in BOOLEAN, d \in AnimDurations :
         LET i == Len(tasks) + 1
         IN /\ tasks' = Append(tasks, NewAnim("animateCSS", found, FALSE, 0, 0))
            /\ timers' = IF found
                         THEN setTimeout(timers, [f |-> "finished", task |-> i],
                                         OrDefault(d, DefaultAnimDuration), now)
                         ELSE timers
    /\ UNCHANGED <<now, log, elements, Notify>>
    /\ UNCHANGED dataVars

\* An animation finishes: its timer or its finish event runs the function
\* that was waiting for it.
AnimTimer ==
    /\ DueTimers(timers, now) # {}
    /\ LET id == NextTimer(timers, now)
           i == timers[id].cb.task
           r == Finished(tasks[i], i, [timers EXCEPT ![id].state = "ran"], now)
       IN /\ tasks' = [tasks EXCEPT ![i] = r.task]
          /\ timers' = r.ts
    /\ UNCHANGED <<now, log, elements, Notify>>
    /\ UNCHANGED dataVars

\* Time passes until an animation is over.
AnimTick ==
    /\ Elapse(DueInstants, 0, AnimMaxTime)
    /\ UNCHANGED <<timers, tasks, log, elements, Notify>>
    /\ UNCHANGED dataVars

NextAnim == AnimDirect \/ AnimGuarded \/ AnimCycle \/ AnimateCSS \/ AnimTimer \/ AnimTick

SpecAnim == InitTimed /\ [][NextAnim]_vars

\* The animations an operation runs before its callback.
AllSteps(task) ==
    IF task.f \in CycleOps THEN task.times * CycleSteps(task.f) ELSE 1

\* The callback of call i was called once, after the animations, or the
\* call is still animating.
CalledBackOnce(i) ==
    LET task == tasks[i]
    IN /\ task.callbacks <= 1
       /\ task.callbacks = 1 =>
             /\ task.steps = AllSteps(task) \/ (task.f = "fadeIn" /\ task.steps = 0)
             /\ PendingOf(i) = {}
       /\ PendingOf(i) = {} => task.callbacks = 1
       /\ PendingOf(i) # {} => task.steps < AllSteps(task)

\* C28: every Anim operation that takes a completion callback calls it once
\* for a call, not zero times and not twice, and only after all its
\* animations have finished (bounce, shake, pulse: after times cycles),
\* whether or not the element is found and whichever way the animation is
\* run (keyframes for an easing function, Web Animations, CSS transition).
C28_CallbackOnce ==
    \A i \in 1..Len(tasks) : CalledBackOnce(i)

\* What the code gives: the same for the calls that found their element and
\* in which Element.animate did not throw; otherwise no callback at all.
CallbackOnceIfFound ==
    \A i \in 1..Len(tasks) :
        IF tasks[i].found /\ ~tasks[i].threw THEN CalledBackOnce(i)
        ELSE tasks[i].callbacks = 0 /\ PendingOf(i) = {}

\* A call whose element was missing is over without its callback; a bounce
\* has ended in a TypeError; a shake has run its cycles and called back.
NeverCalledBack ==
    /\ \E i \in 1..Len(tasks) :
         ~tasks[i].found /\ tasks[i].callbacks = 0 /\ PendingOf(i) = {}

BounceThrew ==
    \E i \in 1..Len(tasks) : tasks[i].f = "bounce" /\ tasks[i].threw

ShakeCalledBack ==
    \E i \in 1..Len(tasks) :
        tasks[i].f = "shake" /\ tasks[i].steps = 8 /\ tasks[i].callbacks = 1

============================================================================
